---- MODULE Spec2Model ----
(***************************************************************************)
(* State-machine model of the text-processing orchestrator                 *)
(* (ai_service/services/orchestrator_service.py): the per-request pipeline *)
(* of OrchestratorService.process_text, the result cache, the processing   *)
(* statistics and the semaphore-bounded process_batch.                     *)
(*                                                                         *)
(* Scheduling: the service runs on one asyncio event loop, so the code     *)
(* between two awaits is one atomic step.  process_text has a single       *)
(* await (the morphological normalization); a request is therefore two     *)
(* steps, the part up to the await and the part after it, and a            *)
(* cancellation can only be delivered while it is suspended there.         *)
(*                                                                         *)
(* Text is a sequence of one-character strings.  TLA+ source is ASCII, so  *)
(* a Cyrillic letter is written by its name: "c_o" is the lowercase        *)
(* Cyrillic o, "C_ya" the uppercase Cyrillic ya.                           *)
(***************************************************************************)
EXTENDS Integers, Sequences, FiniteSets, TLC

----------------------------------------------------------------------------
(* Bounds of the model *)

\* number of stand-alone process_text calls
NumReq == 2
\* largest number of texts handed to process_batch
BatchSize == 3
\* largest max_concurrent handed to process_batch
MaxConcurrent == 2
\* longest measured processing time, in clock ticks
MaxDuration == 1
\* capacity of the LRU cache (cache_size)
CacheMaxSize == 1
\* number of reset_stats calls
MaxResets == 1
\* number of distinct string-hash seeds of the interpreter
MaxHashSeed == 1

\* the largest limit of a search request, and the most hits the engine answers to one
\* entity kNN, one kNN over variant documents and one lexical query
MaxLimit == 2
MaxEntityHits == 2
MaxChildHits == 1
MaxTextHits == 1

\* max_variants=50 handed to the variant generator
MaxVariants == 50

----------------------------------------------------------------------------
(* Characters and strings *)

UkSpecific == {"c_i_uk", "c_yi", "c_ye", "c_g_uk", "C_i_uk", "C_yi", "C_ye", "C_g_uk"}
RuSpecific == {"c_yo", "c_hard", "c_y", "c_e", "C_yo", "C_hard", "C_y", "C_e"}
CyrGeneric == {"c_o", "c_t", "c_n", "c_a", "c_i", "c_p", "c_g", "c_d", "c_v", "c_ya", "c_yu",
               "C_o", "C_t", "C_n", "C_a", "C_i", "C_p", "C_g", "C_d", "C_v", "C_ya", "C_yu"}
LatinLower == {"a", "d", "i", "n", "o", "p", "t", "v", "y"}
LatinUpper == {"A", "D", "I", "N", "O", "P", "T", "V", "Y"}
Latin      == LatinLower \cup LatinUpper
Whitespace == {" "}

\* str.lower() on one character
LowerChar(c) ==
    CASE c = "C_i_uk" -> "c_i_uk" [] c = "C_yi" -> "c_yi" [] c = "C_ye" -> "c_ye"
      [] c = "C_g_uk" -> "c_g_uk" [] c = "C_yo" -> "c_yo" [] c = "C_hard" -> "c_hard"
      [] c = "C_y" -> "c_y" [] c = "C_e" -> "c_e" [] c = "C_o" -> "c_o"
      [] c = "C_t" -> "c_t" [] c = "C_n" -> "c_n" [] c = "C_a" -> "c_a"
      [] c = "C_i" -> "c_i" [] c = "C_p" -> "c_p" [] c = "C_g" -> "c_g"
      [] c = "C_d" -> "c_d" [] c = "C_v" -> "c_v" [] c = "C_ya" -> "c_ya"
      [] c = "C_yu" -> "c_yu"
      [] c = "A" -> "a" [] c = "D" -> "d" [] c = "I" -> "i" [] c = "N" -> "n"
      [] c = "O" -> "o" [] c = "P" -> "p" [] c = "T" -> "t" [] c = "V" -> "v"
      [] c = "Y" -> "y"
      [] OTHER -> c

\* str.lower()
Lower(s) == [i \in 1..Len(s) |-> LowerChar(s[i])]

RECURSIVE LStrip(_)
\* the string without its leading whitespace
LStrip(s) == IF s # << >> /\ Head(s) \in Whitespace THEN LStrip(Tail(s)) ELSE s

RECURSIVE RStrip(_)
\* the string without its trailing whitespace
RStrip(s) ==
    IF s # << >> /\ s[Len(s)] \in Whitespace THEN RStrip(SubSeq(s, 1, Len(s) - 1)) ELSE s

\* str.strip()
Strip(s) == RStrip(LStrip(s))

RECURSIVE SplitWS(_, _)
\* str.split(): the maximal runs of non-whitespace characters (cur is the run being read)
SplitWS(s, cur) ==
    IF s = << >> THEN (IF cur = << >> THEN << >> ELSE <<cur>>)
    ELSE IF Head(s) \in Whitespace
         THEN (IF cur = << >> THEN << >> ELSE <<cur>>) \o SplitWS(Tail(s), << >>)
         ELSE SplitWS(Tail(s), Append(cur, Head(s)))

RECURSIVE JoinSp(_)
\* ' '.join(tokens)
JoinSp(toks) ==
    IF toks = << >> THEN << >>
    ELSE IF Len(toks) = 1 THEN toks[1]
    ELSE toks[1] \o <<" ">> \o JoinSp(Tail(toks))

\* sub in s  (substring test)
Contains(s, sub) ==
    \E i \in 1..(Len(s) - Len(sub) + 1) : SubSeq(s, i, i + Len(sub) - 1) = sub

\* texts: "", " ", the payment text "ot Yana" in Cyrillic ("from Yana") and the
\* sole-proprietor text "ip Yana" in Cyrillic; Texts are those the calls are made with
TextEmpty == << >>
TextSpace == <<" ">>
TextPay   == <<"c_o", "c_t", " ", "C_ya", "c_n", "c_a">>
TextFop   == <<"c_i", "c_p", " ", "C_ya", "c_n", "c_a">>
Texts     == {TextEmpty, TextSpace, TextPay}

----------------------------------------------------------------------------
(* The collaborating services *)

\* the number of characters of s that belong to class
CountIn(s, class) == Cardinality({i \in 1..Len(s) : s[i] \in class})

\* the largest of a non-empty set of numbers
MaxOf(S) == CHOOSE m \in S : \A n \in S : n <= m

\* LanguageDetectionService.detect_language: the language and the confidence (in
\* hundredths) of a text, by counting characters per script class
detect_language(text) ==
    LET uk    == CountIn(text, UkSpecific)
        ru    == CountIn(text, RuSpecific)
        cyr   == uk + ru + CountIn(text, CyrGeneric)
        lat   == CountIn(text, Latin)
        other == Len(text) - cyr - lat
        top   == MaxOf({uk, ru, cyr - uk - ru, lat, other})
        ratio == (100 * top) \div Len(text)
    IN  IF text = << >> THEN [language |-> "other", confidence |-> 0]
        ELSE [language   |-> IF uk > 0 THEN "uk"
                             ELSE IF ru > 0 THEN "ru"
                             ELSE IF cyr > 0 /\ cyr >= lat THEN "ru"
                             ELSE IF lat > 0 THEN "en"
                             ELSE "other",
              confidence |-> IF ratio < 20 THEN 20 ELSE IF ratio > 100 THEN 100 ELSE ratio]

RECURSIVE CollapseWS(_)
\* every run of whitespace replaced by one space
CollapseWS(s) ==
    IF s = << >> THEN << >>
    ELSE IF Head(s) \in Whitespace
         THEN <<" ">> \o CollapseWS(LStrip(s))
         ELSE <<Head(s)>> \o CollapseWS(Tail(s))

\* UnicodeService.normalize_text(text, aggressive=False)['normalized']: whitespace
\* runs collapsed; Cyrillic is kept as it is
unicode_normalize(text) == CollapseWS(text)

\* NormalizationService.normalize(...).normalized when the service answers: the
\* tokens of the text, each in its nominative form (names are preserved), joined by
\* single spaces
normalize(text) == JoinSp(SplitWS(text, << >>))

\* what the awaited normalization can come back with: a result, None, or an exception
NormOutcomes == {"ok", "none", "raise"}

\* Cyrillic-to-Latin transliteration of one character, as the variant generator uses it
CyrToLatChar(c) ==
    CASE c = "c_o" -> <<"o">> [] c = "c_t" -> <<"t">> [] c = "c_n" -> <<"n">>
      [] c = "c_a" -> <<"a">> [] c = "c_i" -> <<"i">> [] c = "c_p" -> <<"p">>
      [] c = "c_d" -> <<"d">> [] c = "c_ya" -> <<"y", "a">> [] c = "C_ya" -> <<"Y", "a">>
      [] c = "C_o" -> <<"O">> [] c = "C_t" -> <<"T">> [] c = "C_n" -> <<"N">>
      [] c = "C_a" -> <<"A">> [] c = "C_i" -> <<"I">> [] c = "C_p" -> <<"P">>
      [] c = "C_d" -> <<"D">>
      [] OTHER -> <<c>>

RECURSIVE CyrToLat(_)
\* Cyrillic-to-Latin transliteration of a string
CyrToLat(s) == IF s = << >> THEN << >> ELSE CyrToLatChar(Head(s)) \o CyrToLat(Tail(s))

\* VariantGenerationService.generate_variants(text, language, max_variants)['variants']:
\* the canonical itself, its Latin transliteration, then the forms of the name tables,
\* which repeat the canonical and may hold an empty entry; cut to max_variants
generate_variants(text, max_variants) ==
    LET all == <<text, CyrToLat(text), text, << >> >>
    IN  SubSeq(all, 1, IF Len(all) < max_variants THEN Len(all) ELSE max_variants)

\* EmbeddingService.get_embeddings([text], normalize=True) when it succeeds: one
\* vector per text (a vector is named by the text it embeds)
get_embeddings(texts) == [i \in 1..Len(texts) |-> [vector_of |-> texts[i]]]

\* what the embedding call can do: succeed, report success=False, or raise
EmbedOutcomes == {"ok", "fail", "raise"}

----------------------------------------------------------------------------
(* Reverse transliteration of romanized Slavic text.  The tables are the      *)
(* source's, cut to the letters of the model's Latin alphabet.                *)

\* the romanized indicator words that can be spelled in the model's alphabet
roman_signals == { <<"v", "i", "d">>, <<"o", "t">> }

\* the indicators that select Ukrainian as the target
uk_signals == { <<"v", "i", "d">> }

\* specials: the whole-word replacements
specials(w) ==
    CASE w = <<"v", "i", "d">> -> <<"c_v", "c_i_uk", "c_d">>
      [] w = <<"o", "t">>      -> <<"c_o", "c_t">>
      [] OTHER                 -> w

\* digraphs_common + digraphs_uk / digraphs_ru, in the source's order
digraphs(target) ==
    << << <<"y", "o">>, <<"c_yo">> >>,
       << <<"y", "u">>, <<"c_yu">> >>,
       << <<"y", "a">>, <<"c_ya">> >> >>
    \o (IF target = "uk"
        THEN << << <<"y", "i">>, <<"c_yi">> >>, << <<"i", "i">>, <<"c_i_uk", "c_yi">> >> >>
        ELSE << >>)

\* single: the letter-by-letter map, lowercase
single(lo) ==
    CASE lo = "a" -> "c_a" [] lo = "d" -> "c_d" [] lo = "i" -> "c_i" [] lo = "n" -> "c_n"
      [] lo = "o" -> "c_o" [] lo = "p" -> "c_p" [] lo = "t" -> "c_t" [] lo = "v" -> "c_v"
      [] lo = "y" -> "c_y"

\* str.upper() on one Cyrillic character produced by single
UpperCyr(c) ==
    CASE c = "c_a" -> "C_a" [] c = "c_d" -> "C_d" [] c = "c_i" -> "C_i" [] c = "c_n" -> "C_n"
      [] c = "c_o" -> "C_o" [] c = "c_p" -> "C_p" [] c = "c_t" -> "C_t" [] c = "c_v" -> "C_v"
      [] c = "c_y" -> "C_y"
      [] OTHER -> c

RECURSIVE ReplaceAllCI(_, _, _)
\* re.sub(a, b, s, flags=re.IGNORECASE) for a literal a
ReplaceAllCI(s, a, b) ==
    IF Len(s) < Len(a) THEN s
    ELSE IF Lower(SubSeq(s, 1, Len(a))) = a
         THEN b \o ReplaceAllCI(SubSeq(s, Len(a) + 1, Len(s)), a, b)
         ELSE <<Head(s)>> \o ReplaceAllCI(Tail(s), a, b)

RECURSIVE ApplyDigraphs(_, _)
\* the digraph substitutions applied one after the other
ApplyDigraphs(s, ds) ==
    IF ds = << >> THEN s ELSE ApplyDigraphs(ReplaceAllCI(s, ds[1][1], ds[1][2]), Tail(ds))

\* translit_token: digraphs, then single letters keeping the case of each letter
translit_token(tok, target) ==
    LET s == ApplyDigraphs(tok, digraphs(target))
    IN  [i \in 1..Len(s) |->
            IF LowerChar(s[i]) \in LatinLower
            THEN (IF s[i] \in LatinUpper THEN UpperCyr(single(LowerChar(s[i])))
                  ELSE single(LowerChar(s[i])))
            ELSE s[i]]

\* OrchestratorService._maybe_reverse_transliterate
maybe_reverse_transliterate(text) ==
    LET low    == Lower(text)
        target == IF \E x \in uk_signals : Contains(low, x) THEN "uk" ELSE "ru"
        tokens == SplitWS(text, << >>)
        conv(tok) ==
            IF Lower(tok) \in roman_signals THEN specials(Lower(tok))
            ELSE IF \A i \in 1..Len(tok) : tok[i] \in Latin \cup {"-"}
                 THEN translit_token(tok, target)
                 ELSE tok
    IN  IF ~ \E sig \in roman_signals : Contains(low, sig) THEN text
        ELSE JoinSp([i \in 1..Len(tokens) |-> conv(tokens[i])])

----------------------------------------------------------------------------
(* The result record and the cache *)

\* ProcessingResult; an Optional value is << >> (None) or <<v>>; language_confidence
\* is in hundredths, processing_time in clock ticks
ProcessingResult(original_text, normalized_text, language, language_confidence, variants, embeddings, processing_time, success, errors) ==
    [original_text |-> original_text, normalized_text |-> normalized_text,
     language |-> language, language_confidence |-> language_confidence,
     variants |-> variants, embeddings |-> embeddings,
     processing_time |-> processing_time, success |-> success, errors |-> errors]

\* the value of a result slot before the call has returned
NoResult == ProcessingResult(<< >>, << >>, "", 0, << >>, << >>, 0, FALSE, << >>)

\* str(bool)
BoolStr(b) == IF b THEN <<"T", "r", "u", "e">> ELSE <<"F", "a", "l", "s", "e">>

\* OrchestratorService._generate_cache_key: "orchestrator_" + md5(key_data); the digest
\* is named by the data it digests (MD5 is taken to be free of collisions)
generate_cache_key(text, gen_variants, gen_embeddings) ==
    [prefix |-> "orchestrator_",
     md5_of |-> text \o <<"_">> \o BoolStr(gen_variants)
                     \o <<"_">> \o BoolStr(gen_embeddings)]

\* CacheService: the entries [key, value], least recently used first; an entry whose
\* TTL has run out is one that has been removed
CacheIndex(c, key) ==
    IF \E i \in 1..Len(c) : c[i].key = key
    THEN CHOOSE i \in 1..Len(c) : c[i].key = key
    ELSE 0

\* the cache without its i-th entry
CacheWithout(c, i) == SubSeq(c, 1, i - 1) \o SubSeq(c, i + 1, Len(c))

\* CacheService.get: the value under key, << >> when there is none
cache_get(c, key) == IF CacheIndex(c, key) = 0 THEN << >> ELSE <<c[CacheIndex(c, key)].value>>

\* the cache after a get: an entry that was read becomes the most recently used
cache_after_get(c, key) ==
    IF CacheIndex(c, key) = 0 THEN c
    ELSE Append(CacheWithout(c, CacheIndex(c, key)), c[CacheIndex(c, key)])

\* CacheService.set: the entry becomes the most recently used; beyond the capacity the
\* least recently used entry is evicted
cache_set(c, key, value) ==
    LET rest == IF CacheIndex(c, key) = 0 THEN c ELSE CacheWithout(c, CacheIndex(c, key))
        all  == Append(rest, [key |-> key, value |-> value])
    IN  IF Len(all) > CacheMaxSize THEN Tail(all) ELSE all

----------------------------------------------------------------------------
(* Name, sole-proprietor and company extraction, and the routing between them *)

\* the span the pattern engine extracts as a payment-context name, the canonical form
\* of a person ("Yana" in Cyrillic) and the normalized company names ("Yug" and the
\* one-letter "Yu" in Cyrillic)
NameSpan        == <<"C_ya", "c_n", "c_a">>
PersonCanonical == <<"C_ya", "c_n", "c_a">>
CompanyNames    == { <<"C_yu", "c_g">>, <<"C_yu">> }

\* What the pattern engine and the name tables can yield for a text.  Both rest on
\* trigger tables and dictionaries that are data, so every outcome is possible for a
\* text that has content; PatternService.generate_patterns gives nothing for a blank
\* text.  candidate: the payment-context name; canonical: its canonical form; pers: the
\* canonical form of the tail after a sole-proprietor marker; company_norm: the
\* normalized company name.
ExtractionOutcomes(text_for_processing) ==
    IF Strip(text_for_processing) = << >>
    THEN {[candidate |-> << >>, canonical |-> << >>, pers |-> << >>, company_norm |-> << >>]}
    ELSE [candidate    : {<< >>, <<NameSpan>>},
          canonical    : {<< >>, <<PersonCanonical>>},
          pers         : {<< >>, <<PersonCanonical>>},
          company_norm : {<< >>} \cup {<<c>> : c \in CompanyNames}]

\* SERVICE_CONFIG, as far as process_text reads it
ServiceConfigs == [smart_filter_routing : BOOLEAN, prefer_company_when_both : BOOLEAN]

\* the sole-proprietor markers
FopMarkers == { <<"c_i", "c_p">>, <<"i", "p">> }

\* re.search(r'\b(fop|ip)\b', text) over the Cyrillic and Latin markers, ignoring case
HasFopMarker(text) ==
    \E i \in 1..Len(SplitWS(text, << >>)) : Lower(SplitWS(text, << >>)[i]) \in FopMarkers

\* the tail after the first marker, stripped
FopTail(text) ==
    LET toks == SplitWS(text, << >>)
        i    == CHOOSE k \in 1..Len(toks) :
                    /\ Lower(toks[k]) \in FopMarkers
                    /\ \A j \in 1..(k - 1) : Lower(toks[j]) \notin FopMarkers
    IN  JoinSp(SubSeq(toks, i + 1, Len(toks)))

\* a routing that keeps the person whenever a person was found, whatever the policy
route_normalized_person_first(normalized, text_for_processing, ext, cfg) ==
    LET person == IF ext.candidate # << >> /\ ext.canonical # << >>
                  THEN ext.canonical[1] ELSE normalized
    IN  IF HasFopMarker(text_for_processing)
        THEN (IF FopTail(text_for_processing) # << >> /\ ext.pers # << >>
              THEN ext.pers[1] ELSE person)
        ELSE IF ext.company_norm # << >> /\ Len(ext.company_norm[1]) > 1
             THEN (IF ext.candidate # << >> THEN person ELSE ext.company_norm[1])
             ELSE person

\* OrchestratorService.process_text, steps 3.1 and 3.2: the final normalized text
route_normalized(normalized, text_for_processing, ext, cfg) ==
    LET person == IF ext.candidate # << >> /\ ext.canonical # << >>
                  THEN ext.canonical[1] ELSE normalized
    IN  IF HasFopMarker(text_for_processing)
        THEN (IF FopTail(text_for_processing) # << >> /\ ext.pers # << >>
              THEN ext.pers[1] ELSE person)
        ELSE IF ext.company_norm # << >> /\ Len(ext.company_norm[1]) > 1
             THEN (IF ext.candidate # << >> /\ cfg.smart_filter_routing
                   THEN (IF cfg.prefer_company_when_both
                         THEN ext.company_norm[1] ELSE person)
                   ELSE ext.company_norm[1])
             ELSE person

\* every final normalized text the extraction can route to
FinalNormalizedSet(normalized, text_for_processing) ==
    { route_normalized(normalized, text_for_processing, ext, cfg) :
        ext \in ExtractionOutcomes(text_for_processing), cfg \in ServiceConfigs }

----------------------------------------------------------------------------
(* Variants and embeddings *)

RECURSIVE FirstOccurrences(_, _)
\* the elements of a list that pass the filter "v and len(v.strip()) > 0", each once,
\* in the order of their first occurrence
FirstOccurrences(raw, seen) ==
    IF raw = << >> THEN << >>
    ELSE IF Strip(Head(raw)) = << >> \/ Head(raw) \in seen
         THEN FirstOccurrences(Tail(raw), seen)
         ELSE <<Head(raw)>> \o FirstOccurrences(Tail(raw), seen \cup {Head(raw)})

\* the list rotated left by k
Rotate(l, k) == [i \in 1..Len(l) |-> l[((i - 1 + k) % Len(l)) + 1]]

\* list(set(v for v in variants if v and len(v.strip()) > 0)): the iteration order of
\* a set of strings is fixed by the interpreter's hash seed
dedup_variants(raw, seed) ==
    LET l == FirstOccurrences(raw, {})
    IN  IF l = << >> THEN << >> ELSE Rotate(l, seed % Len(l))

\* what the variant generator can do: answer, answer without a 'variants' entry,
\* or raise VariantGenerationError
VariantOutcomes == {"ok", "none", "raise"}

\* process_text, step 4, once the generator has answered (answer is "ok", "none", or
\* "skip" when it was not called)
variants_stage(final_normalized, gen_variants, answer, seed) ==
    LET generated ==
            IF answer = "ok"
            THEN dedup_variants(generate_variants(final_normalized, MaxVariants), seed)
            ELSE << >>
    IN  IF ~gen_variants THEN << >>
        ELSE IF generated = << >> THEN <<final_normalized>>
        ELSE generated

\* an embedding stage without its try/except
embedding_stage_unguarded(outcome, final_normalized) ==
    [embeddings |-> IF outcome = "ok" THEN <<get_embeddings(<<final_normalized>>)>>
                    ELSE << >>,
     raised     |-> outcome = "raise"]

\* process_text, step 6: the embeddings, and whether the stage lets an exception out
embedding_stage(outcome, final_normalized) ==
    [embeddings |-> IF outcome = "ok" THEN <<get_embeddings(<<final_normalized>>)>>
                    ELSE << >>,
     raised     |-> FALSE]

----------------------------------------------------------------------------
(* Processing statistics *)

\* OrchestratorService.__init__: the statistics of a new orchestrator
InitialStats ==
    [total_processed |-> 0, successful |-> 0, failed |-> 0, total_time |-> 0,
     average_time |-> 0, cache_hits |-> 0, cache_misses |-> 0,
     smart_filter_skipped |-> 0, smart_filter_processed |-> 0]

\* statistics that count a failed call only as failed, not as processed
update_stats_failed_uncounted(stats, processing_time, success) ==
    [stats EXCEPT !.total_processed = IF success THEN @ + 1 ELSE @,
                  !.total_time      = @ + processing_time,
                  !.successful      = IF success THEN @ + 1 ELSE @,
                  !.failed          = IF success THEN @ ELSE @ + 1,
                  !.average_time    = IF success
                                      THEN (stats.total_time + processing_time)
                                               \div (stats.total_processed + 1)
                                      ELSE @]

\* OrchestratorService._update_stats (times are whole clock ticks, the average is
\* rounded down)
update_stats(stats, processing_time, success) ==
    [stats EXCEPT !.total_processed = @ + 1,
                  !.total_time      = @ + processing_time,
                  !.successful      = IF success THEN @ + 1 ELSE @,
                  !.failed          = IF success THEN @ ELSE @ + 1,
                  !.average_time    = (stats.total_time + processing_time)
                                          \div (stats.total_processed + 1)]

----------------------------------------------------------------------------
(* State *)

VARIABLES
    cache,             \* CacheService: the entries, least recently used first
    processing_stats,  \* OrchestratorService.processing_stats
    req,               \* the process_text calls: position, arguments, locals, result
    batch,             \* the process_batch call and its semaphore
    snapshot,          \* what get_processing_stats last returned
    hash_seed,         \* the interpreter's string-hash seed
    resets,            \* how often reset_stats has been called
    routing,           \* the last person-versus-company routing: inputs and outcome
    decision,          \* the last DecisionLogic.make_decision call: inputs and outcome
    search,            \* the /search request of server_full: position, locals, response
    http,              \* the last /index or /normalize request: fault and status
    fusion,            \* the last pair of scores fused and their final score
    canon              \* the last name span canonicalized, once and then again

\* the state of the orchestrator
orch == <<cache, processing_stats, req, batch, snapshot, hash_seed, resets>>

\* the state outside the orchestrator's calls, cache and statistics
side == <<routing, decision, search, http, fusion, canon>>

vars == <<orch, side>>

\* the stand-alone calls, the calls made by process_batch, and all of them
Req  == 1..NumReq
Task == (NumReq + 1)..(NumReq + BatchSize)
Proc == Req \cup Task

\* measured processing times
Durations == 1..MaxDuration

\* a call that has not been made
IdleCall ==
    [pc |-> "idle", text |-> << >>, gen_variants |-> FALSE, gen_embeddings |-> FALSE,
     cache_result |-> FALSE, force_reprocess |-> FALSE, language |-> "",
     language_confidence |-> 0, text_for_processing |-> << >>, normalized_text |-> << >>, norm_language |-> "",
     trace |-> << >>, embed_failed |-> FALSE, result |-> NoResult]

\* no batch has been started
IdleBatch == [state |-> "idle", sem |-> 0, max_concurrent |-> 0, size |-> 0, results |-> << >>]

\* nothing has been routed
IdleRouting ==
    [done |-> FALSE, text_for_processing |-> << >>, normalized |-> << >>,
     ext |-> [candidate |-> << >>, canonical |-> << >>, pers |-> << >>,
              company_norm |-> << >>],
     cfg |-> [smart_filter_routing |-> FALSE, prefer_company_when_both |-> FALSE],
     final_normalized |-> << >>]

\* make_decision has not been called
IdleDecision ==
    [done |-> FALSE, text |-> << >>, enable_terrorism_detection |-> FALSE,
     signals |-> [names |-> 0, companies |-> 0, documents |-> 0, terrorism |-> 0],
     raised |-> "", decision |-> "", weighted |-> 0, total_weight |-> 1,
     risk_level |-> "", requires_escalation |-> FALSE]

\* the state outside the orchestrator's calls before anything has run
\* no /search request has been received
IdleSearch ==
    [pc |-> "idle", limit |-> 1, threshold |-> 0, index_type |-> "both",
     ai |-> "none", query_vector |-> FALSE, results |-> << >>, idx |-> 1,
     calls |-> << >>, matched |-> {}, vector_hits |-> 0, status |-> 0,
     response |-> << >>]

\* no /index or /normalize request has been received
IdleHttp == [done |-> FALSE, endpoint |-> "", fault |-> "", status |-> 0]

\* no pair of scores has been fused
IdleFusion == [done |-> FALSE, vs |-> 0, ts |-> 0, final |-> 0]

\* no name span has been canonicalized
IdleCanon == [pc |-> "idle", name_text |-> << >>, default_lang |-> "", morph |-> FALSE,
              c |-> << >>, cc |-> << >>]

SideInit ==
    /\ routing = IdleRouting
    /\ decision = IdleDecision
    /\ search = IdleSearch
    /\ http = IdleHttp
    /\ fusion = IdleFusion
    /\ canon = IdleCanon

Init ==
    /\ SideInit
    /\ cache = << >>
    /\ processing_stats = InitialStats
    /\ req = [p \in Proc |-> IdleCall]
    /\ batch = IdleBatch
    /\ snapshot = [taken |-> FALSE, alias |-> FALSE, value |-> InitialStats]
    /\ hash_seed \in 0..MaxHashSeed
    /\ resets = 0

----------------------------------------------------------------------------
(* process_text *)

\* the arguments of a call
AllArgs ==
    [text : Texts, gen_variants : BOOLEAN, gen_embeddings : BOOLEAN,
     cache_result : BOOLEAN, force_reprocess : BOOLEAN]

\* the cache check, with the test of force_reprocess inverted
served_from_cache_inverted(c, key, cache_result, force_reprocess) ==
    force_reprocess /\ cache_result /\ cache_get(c, key) # << >>

\* process_text, the cache check: is the call answered from the cache
served_from_cache(c, key, cache_result, force_reprocess) ==
    ~force_reprocess /\ cache_result /\ cache_get(c, key) # << >>

\* the stages up to the await with the Unicode normalization run on the raw text,
\* before the language is detected
pre_await_stages_unicode_first(lookup) ==
    (IF lookup THEN <<"cache_lookup">> ELSE << >>)
    \o <<"unicode_normalization", "language_detection", "reverse_transliteration",
         "morph_normalization">>

\* the stages process_text runs up to its await, in the order it runs them (lookup:
\* the cache is consulted)
pre_await_stages(lookup) ==
    (IF lookup THEN <<"cache_lookup">> ELSE << >>)
    \o <<"language_detection", "reverse_transliteration", "unicode_normalization",
         "morph_normalization">>

\* the language process_text hands to the normalization service
normalization_language(detected) == detected

\* the stages process_text runs after the await when nothing fails
post_await_stages(gen_variants, gen_embeddings, cache_result) ==
    <<"extraction">>
    \o (IF gen_variants THEN <<"variant_generation">> ELSE << >>)
    \o (IF gen_embeddings THEN <<"embedding">> ELSE << >>)
    \o (IF cache_result THEN <<"cache_write">> ELSE << >>)
    \o <<"stats_update">>

\* process_text from its first line to the await of the normalization, or to the
\* return of a cached result, entered with the counters stats
begin_process_text_from(p, a, stats) ==
    LET key    == generate_cache_key(a.text, a.gen_variants, a.gen_embeddings)
        hit    == served_from_cache(cache, key, a.cache_result, a.force_reprocess)
        lr     == detect_language(a.text)
        tfp    == maybe_reverse_transliterate(a.text)
        called == [req[p] EXCEPT !.text = a.text, !.gen_variants = a.gen_variants,
                                 !.gen_embeddings = a.gen_embeddings,
                                 !.cache_result = a.cache_result,
                                 !.force_reprocess = a.force_reprocess]
    IN  IF hit
        THEN /\ cache' = cache_after_get(cache, key)
             /\ processing_stats' = [stats EXCEPT !.cache_hits = @ + 1]
             /\ req' = [req EXCEPT ![p] = [called EXCEPT !.pc = "done",
                                              !.trace = <<"cache_lookup">>,
                                              !.result = cache_get(cache, key)[1]]]
        ELSE /\ cache' = cache
             /\ processing_stats' = [stats EXCEPT !.cache_misses = @ + 1]
             /\ req' = [req EXCEPT ![p] = [called EXCEPT
                            !.pc = "norm",
                            !.language = lr.language,
                            !.language_confidence = lr.confidence,
                            !.text_for_processing = tfp,
                            !.normalized_text = unicode_normalize(tfp),
                            !.norm_language = normalization_language(lr.language),
                            !.trace = pre_await_stages(~a.force_reprocess /\ a.cache_result)]]

\* process_text from its first line to the await of the normalization, or to the
\* return of a cached result
begin_process_text(p, a) == begin_process_text_from(p, a, processing_stats)

\* a handler of "except Exception" that also caches the failure result
fail_process_text_cached(p, trace, d, embed_failed) ==
    LET res == ProcessingResult(req[p].text, << >>, "unknown", 0, << >>, << >>, d, FALSE,
                                <<"exception">>)
    IN  /\ req' = [req EXCEPT ![p] = [@ EXCEPT
                       !.pc = "done",
                       !.trace = trace \o <<"stats_update">>,
                       !.embed_failed = embed_failed,
                       !.result = res]]
        /\ processing_stats' = update_stats(processing_stats, d, FALSE)
        /\ cache' = IF req[p].cache_result
                    THEN cache_set(cache,
                                   generate_cache_key(req[p].text, req[p].gen_variants,
                                                      req[p].gen_embeddings),
                                   res)
                    ELSE cache

\* process_text, the handler of "except Exception": the statistics count a failure and
\* the result names no language
fail_process_text(p, trace, d, embed_failed) ==
    /\ req' = [req EXCEPT ![p] = [@ EXCEPT
                   !.pc = "done",
                   !.trace = trace \o <<"stats_update">>,
                   !.embed_failed = embed_failed,
                   !.result = ProcessingResult(req[p].text, << >>, "unknown", 0, << >>,
                                               << >>, d, FALSE, <<"exception">>)]]
    /\ processing_stats' = update_stats(processing_stats, d, FALSE)
    /\ cache' = cache

\* process_text after the normalization has answered with a result: extraction and
\* routing, variants, embeddings, the result, the cache write, the statistics
complete_process_text(p, fn, vo, eo, d) ==
    LET r    == req[p]
        key  == generate_cache_key(r.text, r.gen_variants, r.gen_embeddings)
        es   == embedding_stage(eo, fn)
        res  == ProcessingResult(r.text, fn, r.language, r.language_confidence,
                                 variants_stage(fn, r.gen_variants, vo, hash_seed),
                                 es.embeddings, d, TRUE, << >>)
        upTo(stage) == r.trace \o SelectSeq(
                           post_await_stages(r.gen_variants, r.gen_embeddings, r.cache_result),
                           LAMBDA x : x \in stage)
    IN  IF vo = "raise"
        THEN fail_process_text(p, upTo({"extraction", "variant_generation"}), d, FALSE)
        ELSE IF r.gen_embeddings /\ es.raised
        THEN fail_process_text(p, upTo({"extraction", "variant_generation", "embedding"}),
                               d, TRUE)
        ELSE /\ req' = [req EXCEPT ![p] = [@ EXCEPT
                            !.pc = "done",
                            !.trace = r.trace \o post_await_stages(
                                          r.gen_variants, r.gen_embeddings, r.cache_result),
                            !.embed_failed = eo \in {"fail", "raise"},
                            !.result = res]]
             /\ cache' = IF r.cache_result THEN cache_set(cache, key, res) ELSE cache
             /\ processing_stats' = update_stats(processing_stats, d, TRUE)

\* process_text from the return of the awaited normalization to its return
end_process_text(p) ==
    /\ req[p].pc = "norm"
    /\ \E d \in Durations :
        \/ \* the normalization raised
           fail_process_text(p, req[p].trace, d, FALSE)
        \/ \* the normalization returned None: a failure result, no statistics
           /\ req' = [req EXCEPT ![p] = [@ EXCEPT
                          !.pc = "done",
                          !.result = ProcessingResult(
                                         req[p].text, req[p].normalized_text,
                                         req[p].language, req[p].language_confidence,
                                         << >>, << >>, d, FALSE, <<"normalization_none">>)]]
           /\ UNCHANGED <<cache, processing_stats>>
        \/ \* the normalization returned a result
           \E fn \in FinalNormalizedSet(normalize(req[p].normalized_text),
                                        req[p].text_for_processing) :
             \E vo \in (IF req[p].gen_variants /\ Len(Strip(fn)) > 2
                        THEN VariantOutcomes ELSE {"skip"}),
                eo \in (IF req[p].gen_embeddings THEN EmbedOutcomes ELSE {"skip"}) :
                 complete_process_text(p, fn, vo, eo, d)

\* a stand-alone call of process_text is made (calls are numbered as they are made)
StartRequest(p, args) ==
    /\ req[p].pc = "idle"
    /\ \A q \in Req : q < p => req[q].pc # "idle"
    /\ \E a \in args : begin_process_text(p, a)
    /\ UNCHANGED <<batch, snapshot, hash_seed, resets, side>>

\* the awaited normalization of a stand-alone call returns and the call runs to its end
FinishRequest(p) ==
    /\ end_process_text(p)
    /\ UNCHANGED <<batch, snapshot, hash_seed, resets, side>>

\* a CancelledError that the handler of "except Exception" catches
cancel_process_text_caught(p, d) ==
    /\ req' = [req EXCEPT ![p] = [@ EXCEPT
                   !.pc = "cancelled",
                   !.trace = @ \o <<"stats_update">>,
                   !.result = ProcessingResult(req[p].text, << >>, "unknown", 0, << >>,
                                               << >>, d, FALSE, <<"exception">>)]]
    /\ processing_stats' = update_stats(processing_stats, d, FALSE)
    /\ cache' = cache

\* process_text when the await of the normalization raises CancelledError: it is not
\* an Exception, so no handler of process_text runs and the call is left
cancel_process_text(p, d) ==
    /\ req' = [req EXCEPT ![p].pc = "cancelled"]
    /\ UNCHANGED <<cache, processing_stats>>

\* a stand-alone call is cancelled while suspended in the await
CancelRequest(p) ==
    /\ req[p].pc = "norm"
    /\ \E d \in Durations : cancel_process_text(p, d)
    /\ UNCHANGED <<batch, snapshot, hash_seed, resets, side>>

\* the TTL of a cache entry runs out
ExpireCacheEntry ==
    /\ \E i \in 1..Len(cache) : cache' = CacheWithout(cache, i)
    /\ UNCHANGED <<processing_stats, req, batch, snapshot, hash_seed, resets, side>>

NextMain ==
    \/ \E p \in Req : StartRequest(p, AllArgs)
    \/ \E p \in Req : FinishRequest(p)
    \/ \E p \in Req : CancelRequest(p)
    \/ ExpireCacheEntry

Spec == Init /\ [][NextMain]_vars

----------------------------------------------------------------------------
(* get_processing_stats, reset_stats *)

\* the arguments of the calls made while the statistics are watched
StatsArgs ==
    [text : {TextEmpty, TextPay}, gen_variants : {FALSE}, gen_embeddings : {FALSE},
     cache_result : BOOLEAN, force_reprocess : {FALSE}]

\* the dictionary reset_stats installs
ResetStatsValue ==
    [total_processed |-> 0, successful |-> 0, failed |-> 0, cache_hits |-> 0,
     cache_misses |-> 0, average_time |-> 0, total_time |-> 0]

\* get_processing_stats: what the caller holds is a copy of the counters (alias: it is
\* the dictionary of the orchestrator itself)
stats_snapshot(stats) == [taken |-> TRUE, alias |-> FALSE, value |-> stats]

\* the counters as the holder of the snapshot reads them
snapshot_view == IF snapshot.alias THEN processing_stats ELSE snapshot.value

\* get_processing_stats
GetProcessingStats ==
    /\ snapshot' = stats_snapshot(processing_stats)
    /\ UNCHANGED <<cache, processing_stats, req, batch, hash_seed, resets, side>>

\* reset_stats
ResetStats ==
    /\ resets < MaxResets
    /\ resets' = resets + 1
    /\ processing_stats' = ResetStatsValue
    /\ UNCHANGED <<cache, req, batch, snapshot, hash_seed, side>>

NextStats ==
    \/ \E p \in Req : StartRequest(p, StatsArgs)
    \/ \E p \in Req : FinishRequest(p)
    \/ GetProcessingStats
    \/ ResetStats

SpecStats == Init /\ [][NextStats]_vars

----------------------------------------------------------------------------
(* process_text_with_smart_filter *)

\* process_text_with_smart_filter up to the await inside process_text: the counter
\* smart_filter_processed is incremented and process_text is entered; when the
\* dictionary of the counters has no such key the increment raises KeyError, and the
\* handler of "except Exception" counts a failure and returns a failure result
StartSmartFilter(p) ==
    /\ req[p].pc = "idle"
    /\ \A q \in Req : q < p => req[q].pc # "idle"
    /\ \E a \in StatsArgs :
          IF "smart_filter_processed" \in DOMAIN processing_stats
          THEN begin_process_text_from(
                   p, a, [processing_stats EXCEPT !.smart_filter_processed = @ + 1])
          ELSE \E d \in Durations :
                 /\ processing_stats' = [processing_stats EXCEPT !.failed = @ + 1]
                 /\ req' = [req EXCEPT ![p] = [@ EXCEPT
                                !.pc = "done", !.text = a.text,
                                !.gen_variants = a.gen_variants,
                                !.gen_embeddings = a.gen_embeddings,
                                !.cache_result = a.cache_result,
                                !.result = ProcessingResult(a.text, a.text, "unknown", 0,
                                               << >>, << >>, d, FALSE, <<"exception">>)]]
                 /\ cache' = cache
    /\ UNCHANGED <<batch, snapshot, hash_seed, resets, side>>

NextSmartFilter ==
    \/ \E p \in Req : StartRequest(p, StatsArgs)
    \/ \E p \in Req : StartSmartFilter(p)
    \/ \E p \in Req : FinishRequest(p)
    \/ ResetStats

SpecSmartFilter == Init /\ [][NextSmartFilter]_vars

\* C20: after any sequence of process_text, process_text_with_smart_filter and
\* reset_stats, the counters satisfy total_processed = successful + failed.
C20_StatsBalanced ==
    processing_stats.total_processed =
        processing_stats.successful + processing_stats.failed

----------------------------------------------------------------------------
(* process_batch *)

\* the texts a batch is made of
BatchTexts == {TextEmpty, TextPay}

\* a semaphore that never makes a task wait
can_acquire_always(sem) == TRUE

\* asyncio.Semaphore.acquire returns without waiting
can_acquire(sem) == sem > 0

\* process_batch, the conversion of what gather returned for one text
batch_result(text, raised, result) ==
    IF raised
    THEN ProcessingResult(text, << >>, "unknown", 0, << >>, << >>, 0, FALSE, <<"exception">>)
    ELSE result

\* process_batch up to the gather: the semaphore and one task per text
ProcessBatch ==
    /\ batch.state = "idle"
    /\ \E texts \in [1..BatchSize -> BatchTexts], gv \in BOOLEAN, ge \in BOOLEAN,
          mc \in 1..MaxConcurrent :
        /\ batch' = [state |-> "running", sem |-> mc, max_concurrent |-> mc,
                     size |-> BatchSize, results |-> << >>]
        /\ req' = [p \in Proc |->
                     IF p \in Task
                     THEN [IdleCall EXCEPT !.pc = "queued", !.text = texts[p - NumReq],
                                           !.gen_variants = gv, !.gen_embeddings = ge,
                                           !.cache_result = TRUE]
                     ELSE req[p]]
    /\ UNCHANGED <<cache, processing_stats, snapshot, hash_seed, resets, side>>

\* process_single enters the semaphore and runs process_text to its await; the tasks
\* take the semaphore in the order gather created them. A call answered from the
\* cache leaves the semaphore again in the same step.
TaskAcquire(p) ==
    /\ batch.state = "running"
    /\ req[p].pc = "queued"
    /\ \A q \in Task : q < p => req[q].pc # "queued"
    /\ can_acquire(batch.sem)
    /\ begin_process_text(p, [text |-> req[p].text, gen_variants |-> req[p].gen_variants,
                              gen_embeddings |-> req[p].gen_embeddings,
                              cache_result |-> TRUE, force_reprocess |-> FALSE])
    /\ batch' = [batch EXCEPT !.sem = IF req'[p].pc = "norm" THEN @ - 1 ELSE @]
    /\ UNCHANGED <<snapshot, hash_seed, resets, side>>

\* the awaited normalization of a task returns, process_text runs to its end and
\* process_single leaves the semaphore
TaskFinish(p) ==
    /\ batch.state = "running"
    /\ end_process_text(p)
    /\ batch' = [batch EXCEPT !.sem = @ + 1]
    /\ UNCHANGED <<snapshot, hash_seed, resets, side>>

\* gather has every result; process_batch converts and returns them
BatchReturn ==
    /\ batch.state = "running"
    /\ \A p \in Task : req[p].pc = "done"
    /\ batch' = [batch EXCEPT !.state = "done",
                     !.results = [i \in 1..BatchSize |->
                                     batch_result(req[NumReq + i].text, FALSE,
                                                  req[NumReq + i].result)]]
    /\ UNCHANGED <<cache, processing_stats, req, snapshot, hash_seed, resets, side>>

NextBatch ==
    \/ ProcessBatch
    \/ \E p \in Task : TaskAcquire(p)
    \/ \E p \in Task : TaskFinish(p)
    \/ BatchReturn

SpecBatch == Init /\ [][NextBatch]_vars

----------------------------------------------------------------------------
(* Cache hits *)

\* two results that differ at most in processing_time
SameButTime(a, b) == [a EXCEPT !.processing_time = 0] = [b EXCEPT !.processing_time = 0]

\* the call p is made in this step
CallMade(p) == req[p].pc \in {"idle", "queued"} /\ req'[p].pc \in {"norm", "done"}

\* the unexpired value the cache holds for the arguments of call p as made in this step
CachedFor(p) ==
    cache_get(cache, generate_cache_key(req'[p].text, req'[p].gen_variants,
                                        req'[p].gen_embeddings))

\* C1 as stated: whenever the cache holds an unexpired value v under the key of
\* (text, generate_variants, generate_embeddings), a call of process_text with that
\* text and those flags and without force_reprocess returns v, processing_time aside.
C1_AnyCallReturnsCached ==
    [][\A p \in Proc :
          (CallMade(p) /\ ~req'[p].force_reprocess /\ CachedFor(p) # << >>)
          => (req'[p].pc = "done" /\ SameButTime(req'[p].result, CachedFor(p)[1]))]_vars

\* C1 amended: whenever the cache holds an unexpired value v under the key of (text,
\* generate_variants, generate_embeddings), a call of process_text with that text and
\* those flags, without force_reprocess and with cache_result true, returns v,
\* processing_time aside.
C1_CachingCallReturnsCached ==
    [][\A p \in Proc :
          (CallMade(p) /\ ~req'[p].force_reprocess /\ req'[p].cache_result
           /\ CachedFor(p) # << >>)
          => (req'[p].pc = "done" /\ SameButTime(req'[p].result, CachedFor(p)[1]))]_vars

\* a call has returned the value another call cached
C1_Witness ==
    \E p \in Req, q \in Req :
        /\ p # q
        /\ req[p].pc = "done" /\ req[p].trace = <<"cache_lookup">>
        /\ req[q].pc = "done" /\ "cache_write" \in {req[q].trace[i] : i \in DOMAIN req[q].trace}
        /\ req[p].result = req[q].result

----------------------------------------------------------------------------
(* Results *)

\* the calls that have returned a result
Returned == {p \in Proc : req[p].pc = "done"}

\* the elements of a sequence
Elems(l) == {l[i] : i \in DOMAIN l}

\* C2: a result with success = true has a non-empty normalized text.
C2_SuccessHasNormalized ==
    \A p \in Returned : req[p].result.success => req[p].result.normalized_text # << >>

\* C3: for every input, the variants of the result hold no duplicates and no empty
\* string.
C3_VariantsDistinctNonEmpty ==
    \A p \in Returned :
        LET v == req[p].result.variants
        IN  /\ \A i, j \in DOMAIN v : i # j => v[i] # v[j]
            /\ \A i \in DOMAIN v : v[i] # << >>

\* the language tags of the specification
Languages == {"ru", "uk", "en", "other"}

\* a result whose language is a tag and whose confidence lies in [0, 1] (hundredths)
LanguageInRange(r) ==
    r.language \in Languages /\ 0 <= r.language_confidence /\ r.language_confidence <= 100

\* C4: on every return path of process_text, and for every element process_batch
\* returns, the language is one of ru, uk, en, other and the confidence lies in [0, 1].
C4_LanguageInRange ==
    /\ \A p \in Returned : LanguageInRange(req[p].result)
    /\ \A i \in DOMAIN batch.results : LanguageInRange(batch.results[i])

\* C5: for empty or whitespace-only input the result has success = false and no
\* variants.
C5_EmptyInputFails ==
    \A p \in Returned :
        Strip(req[p].text) = << >>
        => (~req[p].result.success /\ req[p].result.variants = << >>)

\* C6: when embeddings were requested and the embedding stage raised or reported
\* failure, the result has success = true and its embeddings are None.
C6_EmbeddingFailureTolerated ==
    \A p \in Returned :
        (req[p].gen_embeddings /\ req[p].embed_failed)
        => (req[p].result.success /\ req[p].result.embeddings = << >>)

\* a call that asked for embeddings has returned after the embedding stage failed
C6_Witness ==
    \E p \in Returned :
        /\ req[p].gen_embeddings /\ req[p].embed_failed
        /\ "embedding" \in Elems(req[p].trace)
        /\ req[p].result.success

----------------------------------------------------------------------------
(* Cancellation *)

\* C7: a call cancelled while it is suspended in the awaited normalization stops
\* there: the cancellation changes neither the cache nor the statistics, the call
\* returns no result and takes no further step, so it never writes a cache entry.
C7_CancelledCallStops ==
    [][\A p \in Proc :
          /\ (req[p].pc # "cancelled" /\ req'[p].pc = "cancelled")
             => /\ req[p].pc = "norm"
                /\ cache' = cache
                /\ processing_stats' = processing_stats
                /\ req'[p] = [req[p] EXCEPT !.pc = "cancelled"]
                /\ "cache_write" \notin Elems(req'[p].trace)
          /\ (req[p].pc = "cancelled") => (req'[p] = req[p])]_vars

\* a call was cancelled in its await after another call had cached its result
C7_Witness ==
    \E p \in Req, q \in Req :
        /\ req[p].pc = "cancelled" /\ req[p].cache_result
        /\ req[p].trace = pre_await_stages(TRUE)
        /\ req[q].pc = "done" /\ "cache_write" \in Elems(req[q].trace)

----------------------------------------------------------------------------
(* Statistics *)

\* the calls that run the statistics update in this step
UpdatingStats ==
    {p \in Proc : "stats_update" \in Elems(req'[p].trace)
                  /\ "stats_update" \notin Elems(req[p].trace)}

\* C8: the statistics update is atomic, so that every step in which k calls run it
\* raises total_processed by exactly k (reset_stats aside), and what
\* get_processing_stats returned is a copy that later updates do not change.
C8_StatsCountEveryUpdate ==
    [][/\ (resets' = resets)
          => (processing_stats'.total_processed
                = processing_stats.total_processed + Cardinality(UpdatingStats))
       /\ (snapshot.taken /\ snapshot' = snapshot) => (snapshot_view' = snapshot_view)]_vars

\* two calls have run the statistics update, one before and one after the snapshot
\* was taken
C8_Witness ==
    /\ snapshot.taken /\ snapshot_view.total_processed = 1
    /\ processing_stats.total_processed = 2
    /\ Cardinality({p \in Req : "stats_update" \in Elems(req[p].trace)}) = 2

----------------------------------------------------------------------------
(* Batches *)

\* the calls of the batch that are in progress
InProgress == {p \in Task : req[p].pc = "norm"}

\* C9: at no time are more than max_concurrent process_text calls of a batch in
\* progress.
C9_BatchConcurrencyBounded ==
    Cardinality(InProgress) <= batch.max_concurrent

\* the semaphore is exhausted and a task of the batch waits for it
C9_Witness ==
    /\ batch.state = "running" /\ batch.sem = 0
    /\ Cardinality(InProgress) = batch.max_concurrent
    /\ \E p \in Task : req[p].pc = "queued"

----------------------------------------------------------------------------
(* Stage order *)

\* the place of a stage in the stated order
StageRank(stage) ==
    CASE stage = "cache_lookup"            -> 1
      [] stage = "language_detection"      -> 2
      [] stage = "reverse_transliteration" -> 3
      [] stage = "unicode_normalization"   -> 4
      [] stage = "morph_normalization"     -> 5
      [] stage = "extraction"              -> 6
      [] stage = "variant_generation"      -> 7
      [] stage = "embedding"               -> 8
      [] stage = "cache_write"             -> 9
      [] stage = "stats_update"            -> 10

\* C10: the stages of a call run in the order cache lookup, language detection,
\* reverse transliteration, Unicode normalization, morphological normalization,
\* extraction and routing, variant generation, embedding, cache write, statistics
\* update; the morphological normalization is handed the detected language, never
\* 'auto'.
C10_StagesInOrder ==
    \A p \in Proc :
        LET t == req[p].trace
        IN  /\ \A i, j \in DOMAIN t : i < j => StageRank(t[i]) < StageRank(t[j])
            /\ "morph_normalization" \in Elems(t)
               => /\ req[p].norm_language = req[p].language
                  /\ req[p].norm_language \in Languages

\* a call has run every stage
C10_Witness ==
    \E p \in Req :
        /\ req[p].pc = "done"
        /\ Len(req[p].trace) = 10
        /\ req[p].norm_language = "ru"

----------------------------------------------------------------------------
(* Person-versus-company routing *)

\* the texts that are routed
RoutedTexts == Texts \cup {TextFop}

\* process_text, steps 3.1 and 3.2, run on one text with one outcome of the
\* extraction and one configuration
RouteText ==
    \E text \in RoutedTexts, cfg \in ServiceConfigs :
        LET tfp  == maybe_reverse_transliterate(text)
            norm == normalize(unicode_normalize(tfp))
        IN  \E ext \in ExtractionOutcomes(tfp) :
              /\ routing' = [done |-> TRUE, text_for_processing |-> tfp,
                             normalized |-> norm, ext |-> ext, cfg |-> cfg,
                             final_normalized |-> route_normalized(norm, tfp, ext, cfg)]
              /\ UNCHANGED <<orch, decision, search, http, fusion, canon>>

NextRouting == RouteText

SpecRouting == Init /\ [][NextRouting]_vars

\* a person span and a company span were both extracted from the routed text
BothExtracted ==
    /\ routing.done
    /\ ~HasFopMarker(routing.text_for_processing)
    /\ routing.ext.candidate # << >>
    /\ routing.ext.company_norm # << >>

\* C11 as stated: when both a person span and a company span are extracted, the final
\* normalized text is the normalized company name if prefer_company_when_both is set
\* and the person canonical form in every other case.
C11_PolicyAloneRoutes ==
    BothExtracted
    => IF routing.cfg.prefer_company_when_both
       THEN routing.final_normalized = routing.ext.company_norm[1]
       ELSE routing.ext.canonical = <<routing.final_normalized>>

\* C11 amended: when both a person span that has a canonical form and a company span
\* whose normalized name has more than one character are extracted, the final
\* normalized text is the normalized company name if smart_filter_routing is off or
\* prefer_company_when_both is set, and the person canonical form in every other case.
C11_RoutingFlagAndPolicyRoute ==
    (BothExtracted /\ routing.ext.canonical # << >>
     /\ Len(routing.ext.company_norm[1]) > 1)
    => IF ~routing.cfg.smart_filter_routing \/ routing.cfg.prefer_company_when_both
       THEN routing.final_normalized = routing.ext.company_norm[1]
       ELSE routing.final_normalized = routing.ext.canonical[1]

\* both spans were extracted, the routing is on and the policy prefers the company
C11_Witness ==
    /\ BothExtracted /\ routing.ext.canonical # << >>
    /\ Len(routing.ext.company_norm[1]) > 1
    /\ routing.cfg.smart_filter_routing /\ routing.cfg.prefer_company_when_both
    /\ routing.final_normalized = routing.ext.company_norm[1]
    /\ routing.final_normalized # routing.ext.canonical[1]

----------------------------------------------------------------------------
(* DecisionLogic.make_decision *)

\* confidences (hundredths) the detectors report
ConfLevels == {0, 30, 50, 80, 100}

\* decision_thresholds, in hundredths
decision_thresholds ==
    [terrorism_block |-> 80, terrorism_review |-> 50, full_search_high |-> 70,
     full_search_medium |-> 50, manual_review |-> 30, allow_threshold |-> 20]

\* signal_weights, in tenths
signal_weights == [terrorism |-> 10, documents |-> 8, names |-> 7, companies |-> 6]

\* the characters of the texts decisions are made on
Digits      == {"0", "1", "2"}
Punctuation == {"-", "!"}

\* a text of digits and the bare word "oplata" in Cyrillic ("payment")
TextDigits == <<"1", "2">>
TextOplata == <<"c_o", "c_p", "c_l", "c_a", "c_t", "c_a">>

\* the words of the third exclusion pattern: oplata, platezh, perevod in Cyrillic
ExcludedWords ==
    { <<"c_o", "c_p", "c_l", "c_a", "c_t", "c_a">>,
      <<"c_p", "c_l", "c_a", "c_t", "c_ie", "c_zh">>,
      <<"c_p", "c_ie", "c_r", "c_ie", "c_v", "c_o", "c_d">> }

\* DecisionLogic._is_excluded_text: only digits, only characters that are neither
\* word characters nor whitespace, or one of the general terms
is_excluded_text(text) ==
    LET t == Lower(Strip(text))
    IN  \/ t # << >> /\ \A i \in DOMAIN t : t[i] \in Digits
        \/ t # << >> /\ \A i \in DOMAIN t : t[i] \in Punctuation
        \/ t \in ExcludedWords

\* the names the module binds at its top level (its imports and classes)
ModuleNames ==
    {"re", "Dict", "List", "Any", "Optional", "Tuple", "dataclass", "Enum", "logging",
     "get_logger", "NameDetector", "CompanyDetector", "DocumentDetector",
     "TerrorismDetector", "ConfidenceScorer", "DecisionType", "RiskLevel",
     "DecisionResult", "DecisionLogic"}

\* the names make_decision binds itself: its parameters and its "import time"
MakeDecisionLocals == {"self", "text", "context", "time", "start_time"}

\* helper methods in which the name time is bound as well
HelperLocals_with_time ==
    {"self", "signals", "text", "context", "start_time", "reason", "time"}

\* the names the other methods bind: their parameters and what they assign
HelperLocals == {"self", "signals", "text", "context", "start_time", "reason"}

\* a name resolves in a method: it is one of the method's locals or a module name
name_resolves(name, locals) == name \in locals \cup ModuleNames

\* a DecisionResult as a helper method builds it: its processing_time is computed as
\* time.time() - start_time, which raises NameError where "time" does not resolve
DecisionResult(dec, weighted, total_weight, risk_level, locals) ==
    IF name_resolves("time", locals)
    THEN [raised |-> "", decision |-> dec, weighted |-> weighted,
          total_weight |-> total_weight, risk_level |-> risk_level,
          requires_escalation |-> dec \in {"manual_review", "priority_review"}]
    ELSE [raised |-> "NameError", decision |-> "", weighted |-> 0, total_weight |-> 1,
          risk_level |-> "", requires_escalation |-> FALSE]

\* TerrorismDetector.detect_terrorism_signals: the risk level of a confidence
terrorism_risk(confidence) ==
    IF confidence >= 80 THEN "high"
    ELSE IF confidence >= 50 THEN "medium"
    ELSE IF confidence >= 30 THEN "low"
    ELSE "very_low"

\* _collect_all_signals_optimized: the confidences of the four groups as the detectors
\* report them; without a terrorism detector that group reports 0
collect_all_signals(detected, enable_terrorism_detection) ==
    [detected EXCEPT !.terrorism = IF enable_terrorism_detection THEN @ ELSE 0]

\* DecisionLogic._analyze_terrorism_signals: a result, or << >> to go on
analyze_terrorism_signals(signals) ==
    IF signals.terrorism >= decision_thresholds.terrorism_block
    THEN <<DecisionResult("block", signals.terrorism, 1, "critical", HelperLocals)>>
    ELSE IF signals.terrorism >= decision_thresholds.terrorism_review
    THEN <<DecisionResult("priority_review", signals.terrorism, 1, "high", HelperLocals)>>
    ELSE << >>

\* DecisionLogic._make_regular_decision on the confidence weighted / total_weight
make_regular_decision(weighted, total_weight) ==
    IF weighted >= decision_thresholds.full_search_high * total_weight THEN "full_search"
    ELSE IF weighted >= decision_thresholds.full_search_medium * total_weight
    THEN "full_search"
    ELSE IF weighted >= decision_thresholds.manual_review * total_weight
    THEN "manual_review"
    ELSE "allow"

\* DecisionLogic._determine_risk_level
determine_risk_level(weighted, total_weight, signals) ==
    IF terrorism_risk(signals.terrorism) \in {"high", "critical"} THEN "critical"
    ELSE IF terrorism_risk(signals.terrorism) = "medium" THEN "high"
    ELSE IF weighted >= 80 * total_weight THEN "high"
    ELSE IF weighted >= 60 * total_weight THEN "medium"
    ELSE IF weighted >= 30 * total_weight THEN "low"
    ELSE "very_low"

\* DecisionLogic._analyze_regular_signals: the weighted confidence of names, companies
\* and documents, the risk level and the decision
analyze_regular_signals(signals) ==
    LET weighted == signals.names * signal_weights.names
                    + signals.companies * signal_weights.companies
                    + signals.documents * signal_weights.documents
        total_weight == signal_weights.names + signal_weights.companies
                        + signal_weights.documents
    IN  DecisionResult(make_regular_decision(weighted, total_weight), weighted,
                       total_weight, determine_risk_level(weighted, total_weight, signals),
                       HelperLocals)

\* DecisionLogic._create_allow_decision
create_allow_decision == DecisionResult("allow", 0, 1, "very_low", HelperLocals)

\* DecisionLogic.make_decision
make_decision(text, detected, enable_terrorism_detection) ==
    LET signals == collect_all_signals(detected, enable_terrorism_detection)
    IN  IF Strip(text) = << >> THEN create_allow_decision
        ELSE IF is_excluded_text(text) THEN create_allow_decision
        ELSE IF enable_terrorism_detection /\ analyze_terrorism_signals(signals) # << >>
        THEN analyze_terrorism_signals(signals)[1]
        ELSE analyze_regular_signals(signals)

\* the texts decisions are made on
DecisionTexts == {TextEmpty, TextSpace, TextDigits, TextOplata, TextPay}

\* make_decision is called once, on a text for which the detectors report some
\* confidences
MakeDecision ==
    /\ ~decision.done
    /\ \E text \in DecisionTexts, enabled \in BOOLEAN,
          detected \in [names : ConfLevels, companies : ConfLevels,
                        documents : ConfLevels, terrorism : ConfLevels] :
           LET r == make_decision(text, detected, enabled)
           IN  /\ decision' = [done |-> TRUE, text |-> text,
                               enable_terrorism_detection |-> enabled,
                               signals |-> collect_all_signals(detected, enabled),
                               raised |-> r.raised, decision |-> r.decision,
                               weighted |-> r.weighted, total_weight |-> r.total_weight,
                               risk_level |-> r.risk_level,
                               requires_escalation |-> r.requires_escalation]
               /\ UNCHANGED <<orch, routing, search, http, fusion, canon>>

NextDecision == MakeDecision

SpecDecision == Init /\ [][NextDecision]_vars

\* make_decision was called on a text that is neither empty nor excluded
DecidedOnContent ==
    /\ decision.done
    /\ Strip(decision.text) # << >>
    /\ ~is_excluded_text(decision.text)

\* C12: for a non-empty, non-excluded text whose high-risk confidence is at least 0.8,
\* make_decision returns a result whose decision is BLOCK.
C12_HighRiskBlocks ==
    (DecidedOnContent /\ decision.signals.terrorism >= 80)
    => (decision.raised = "" /\ decision.decision = "block")

\* C13: for a non-empty, non-excluded text whose high-risk confidence is below 0.5,
\* with W the weighted mean of the names, companies and documents confidences under
\* the weights 0.7, 0.6 and 0.8, make_decision returns FULL_SEARCH when W >= 0.5,
\* REVIEW when 0.3 <= W < 0.5 and ALLOW when W < 0.3.
C13_WeightedDecision ==
    (DecidedOnContent /\ decision.signals.terrorism < 50)
    => LET W21 == 7 * decision.signals.names + 6 * decision.signals.companies
                  + 8 * decision.signals.documents
       IN  /\ decision.raised = ""
           /\ decision.decision = IF W21 >= 50 * 21 THEN "full_search"
                                  ELSE IF W21 >= 30 * 21 THEN "manual_review"
                                  ELSE "allow"

\* C25: for a non-empty, non-excluded text whose only signals are document
\* identifiers (names and companies confidence 0, high-risk confidence below 0.5),
\* make_decision returns ALLOW whatever the documents confidence is.
C25_DocumentOnlyAllowed ==
    (/\ DecidedOnContent
     /\ decision.signals.names = 0
     /\ decision.signals.companies = 0
     /\ decision.signals.terrorism < 50)
    => (decision.raised = "" /\ decision.decision = "allow")

\* the decisions stronger than a review
StrongerThanReview == {"block"}

----------------------------------------------------------------------------
(* server_full: POST /search *)

\* the document ids of the indices, the scores of vector hits (hundredths, cosine
\* similarity) and the scores of lexical hits (hundredths)
Ids          == {"A", "B"}
VectorScores == {60, 90}
TextScores   == {40, 150}

\* the thresholds of the requests (hundredths)
Thresholds == {70}

\* the sequences over S of length at most n
SeqsUpTo(S, n) == UNION {[1..k -> S] : k \in 0..n}

\* the smaller of two numbers
Min(a, b) == IF a <= b THEN a ELSE b

\* the larger of two numbers
Max(a, b) == IF a >= b THEN a ELSE b

\* an entity kNN whose query carries no min_score
EntityHits_without_min_score(size, min_score) ==
    SeqsUpTo([id : Ids, score : VectorScores], Min(size, MaxEntityHits))

\* what the engine can answer to the entity kNN: at most size hits, none below min_score
EntityHits(size, min_score) ==
    SeqsUpTo([id : Ids, score : {x \in VectorScores : x >= min_score}],
             Min(size, MaxEntityHits))

\* what the engine can answer to a kNN over variant documents: at most size hits, each
\* with or without a parent id, and whether the fetch of that parent succeeds
ChildHits(size) ==
    SeqsUpTo([parent_id : {<< >>} \cup {<<i>> : i \in Ids}, score : VectorScores,
              fetch_ok : BOOLEAN],
             Min(size, MaxChildHits))

\* what the engine can answer to the lexical query on one index
TextHits(size) ==
    SeqsUpTo([id : Ids, parent_id : {<< >>} \cup {<<i>> : i \in Ids},
              score : TextScores, fetch_ok : BOOLEAN],
             Min(size, MaxTextHits))

\* any(r["id"] == id for r in results)
InResults(results, id) == \E i \in DOMAIN results : results[i].id = id

\* the entity kNN loop: every hit is appended
add_entity_hits(results, hits) ==
    results \o [i \in 1..Len(hits) |->
                   [id |-> hits[i].id, score |-> hits[i].score, index |-> "sanctions"]]

RECURSIVE add_child_hits(_, _, _)
\* the loop over the hits of a kNN on variant documents: a hit without parent id, or
\* with a parent already among the results, is skipped; the parent is fetched and
\* appended under the hit's score, or skipped when the fetch fails
add_child_hits(results, hits, index) ==
    IF hits = << >> THEN results
    ELSE LET h == Head(hits)
         IN  IF h.parent_id = << >> \/ InResults(results, h.parent_id[1]) \/ ~h.fetch_ok
             THEN add_child_hits(results, Tail(hits), index)
             ELSE add_child_hits(
                      Append(results, [id |-> h.parent_id[1], score |-> h.score,
                                       index |-> index]),
                      Tail(hits), index)

RECURSIVE add_text_hits(_, _, _, _)
\* the loop over the hits of the lexical query on one index, left when the results
\* reach the limit
add_text_hits(results, hits, index_name, limit) ==
    IF hits = << >> THEN results
    ELSE LET h == Head(hits)
             r == IF index_name = "sanctions_variants"
                  THEN (IF h.parent_id = << >> \/ InResults(results, h.parent_id[1])
                           \/ ~h.fetch_ok
                        THEN results
                        ELSE Append(results, [id |-> h.parent_id[1], score |-> h.score,
                                              index |-> "sanctions"]))
                  ELSE (IF InResults(results, h.id) THEN results
                        ELSE Append(results, [id |-> h.id, score |-> h.score,
                                              index |-> index_name]))
         IN  IF Len(r) >= limit THEN r
             ELSE add_text_hits(r, Tail(hits), index_name, limit)

\* the indices the lexical query is sent to, in order
LexicalIndices == <<"sanctions", "payment_vectors", "test_index", "sanctions_variants">>

\* a handler that falls back to the lexical queries only when it has no result at all
lexical_needed_without_results(results, limit) == results = << >>

\* "if len(results) < query.limit": whether the lexical queries are issued
lexical_needed(results, limit) == Len(results) < limit

\* the position of the handler after a retrieval call, failed or not
next_stage(s, call) ==
    IF call = "entity_knn" THEN [s EXCEPT !.pc = "variant_knn"]
    ELSE IF call = "variant_knn" THEN [s EXCEPT !.pc = "pc_knn"]
    ELSE IF call = "pc_knn"
    THEN [s EXCEPT !.pc = IF lexical_needed(s.results, s.limit) THEN "lexical"
                          ELSE "respond",
                   !.idx = 1, !.vector_hits = Len(s.results)]
    ELSE IF Len(s.results) >= s.limit \/ s.idx = Len(LexicalIndices)
    THEN [s EXCEPT !.pc = "respond"]
    ELSE [s EXCEPT !.idx = @ + 1]

\* a handler whose retrieval calls are not guarded: a failed call ends the request in
\* the outer handler with status 500
after_call_unguarded(s, call, name, ok, results) ==
    IF ok
    THEN next_stage([s EXCEPT !.results = results,
                              !.calls = Append(@, [call |-> name, ok |-> ok])], call)
    ELSE [s EXCEPT !.calls = Append(@, [call |-> name, ok |-> ok]),
                   !.pc = "done", !.status = 500]

\* the handler after a retrieval call: a failed call is logged and leaves the results
\* as they are, and the handler goes on
after_call(s, call, name, ok, results) ==
    next_stage([s EXCEPT !.results = IF ok THEN results ELSE @,
                         !.calls = Append(@, [call |-> name, ok |-> ok])], call)

\* whether a parent fetch of the loop over the hits of a kNN on variant documents fails
child_fetch_failed(results, hits, index) ==
    \E i \in DOMAIN hits :
        /\ hits[i].parent_id # << >>
        /\ ~hits[i].fetch_ok
        /\ ~InResults(add_child_hits(results, SubSeq(hits, 1, i - 1), index),
                      hits[i].parent_id[1])

\* whether a parent fetch of the loop over the lexical hits of one index fails
text_fetch_failed(results, hits, index_name, limit) ==
    /\ index_name = "sanctions_variants"
    /\ \E i \in DOMAIN hits :
           LET before == add_text_hits(results, SubSeq(hits, 1, i - 1), index_name, limit)
           IN  /\ Len(before) < limit
               /\ hits[i].parent_id # << >>
               /\ ~hits[i].fetch_ok
               /\ ~InResults(before, hits[i].parent_id[1])

\* the log of the calls with the failed parent fetch of a loop, if there is one
log_fetch(s, failed) ==
    IF failed THEN [s EXCEPT !.calls = Append(@, [call |-> "parent_fetch", ok |-> FALSE])]
    ELSE s

\* the parent ids the engine matched through variant documents whose parent can be
\* fetched, with the kind of the retrieval
child_matches(hits, kind) ==
    {[id |-> hits[i].parent_id[1], kind |-> kind, score |-> hits[i].score,
      entity |-> FALSE] :
        i \in {j \in DOMAIN hits : hits[j].parent_id # << >> /\ hits[j].fetch_ok}}

\* the ids the engine matched by the lexical query on one index
text_matches(hits, index_name) ==
    IF index_name = "sanctions_variants" THEN child_matches(hits, "text")
    ELSE {[id |-> hits[i].id, kind |-> "text", score |-> hits[i].score,
           entity |-> FALSE] : i \in DOMAIN hits}

\* the class the fusion gives a collected hit: by its index and by whether the request
\* has a query vector
hit_method(r, query_vector) ==
    IF query_vector /\ r.index \in {"sanctions", "sanctions_variants"} /\ r.score # 0
    THEN "vector" ELSE "text"

RECURSIVE first_ids(_, _)
\* the keys of the dict fused, in the order of their insertion
first_ids(results, seen) ==
    IF results = << >> THEN << >>
    ELSE IF Head(results).id \in seen THEN first_ids(Tail(results), seen)
    ELSE <<Head(results).id>> \o first_ids(Tail(results), seen \cup {Head(results).id})

\* a fusion that keeps one entry per collected hit
fuse_hits_unmerged(results, query_vector) ==
    [i \in DOMAIN results |->
        [id           |-> results[i].id,
         index        |-> results[i].index,
         vector_score |-> IF hit_method(results[i], query_vector) = "vector"
                          THEN results[i].score ELSE 0,
         text_score   |-> IF hit_method(results[i], query_vector) = "text"
                          THEN results[i].score ELSE 0]]

\* add_hit over the collected hits: one entry per id, holding the index of the first
\* hit of the id and the largest vector score and text score of its hits
fuse_hits(results, query_vector) ==
    LET ids == first_ids(results, {})
        of(id) == {i \in DOMAIN results : results[i].id = id}
        sc(id, m) == {results[i].score :
                         i \in {j \in of(id) : hit_method(results[j], query_vector) = m}}
    IN  [k \in DOMAIN ids |->
            [id           |-> ids[k],
             index        |-> results[CHOOSE i \in of(ids[k]) :
                                          \A j \in of(ids[k]) : i <= j].index,
             vector_score |-> MaxOf({0} \cup sc(ids[k], "vector")),
             text_score   |-> MaxOf({0} \cup sc(ids[k], "text"))]]

\* a fusion whose weights are exchanged
fuse_score_text_heavy(vs, ts) ==
    IF vs > 0 /\ ts > 0 THEN 30 * vs + 70 * ts ELSE 100 * Max(vs, ts)

\* the final score (in ten-thousandths) of an entry with vector score vs and text
\* score ts (in hundredths)
fuse_score(vs, ts) ==
    IF vs > 0 /\ ts > 0 THEN 70 * vs + 30 * ts ELSE 100 * Max(vs, ts)

RECURSIVE insert_desc(_, _)
\* e put into the descending list l, before the first entry whose score is not larger
insert_desc(e, l) ==
    IF l = << >> THEN <<e>>
    ELSE IF Head(l).score <= e.score THEN <<e>> \o l
    ELSE <<Head(l)>> \o insert_desc(e, Tail(l))

RECURSIVE sort_desc(_)
\* fused_list.sort(key=score, reverse=True): stable, equal scores keep their order
sort_desc(l) ==
    IF l = << >> THEN << >> ELSE insert_desc(Head(l), sort_desc(Tail(l)))

\* the results of the response: the fused entries with their final scores, sorted by
\* descending score and cut to the limit
fused_list(results, query_vector, limit) ==
    LET fused  == fuse_hits(results, query_vector)
        scored == [k \in DOMAIN fused |->
                      [id    |-> fused[k].id,
                       score |-> fuse_score(fused[k].vector_score, fused[k].text_score),
                       index |-> fused[k].index]]
        sorted == sort_desc(scored)
    IN  SubSeq(sorted, 1, Min(limit, Len(sorted)))

\* the request is received and the AI step runs: there is no AI processor ("none"),
\* or it answers with a usable embedding ("vector"), with success and no usable
\* embedding ("novector"), with success false ("failed"), or it raises ("raise")
SearchStart ==
    /\ search.pc = "idle"
    /\ \E limit \in 1..MaxLimit, threshold \in Thresholds,
          index_type \in {"sanctions", "both", "payments"},
          ai \in {"none", "vector", "novector", "failed", "raise"} :
          search' = [search EXCEPT
                        !.limit = limit, !.threshold = threshold,
                        !.index_type = index_type, !.ai = ai,
                        !.query_vector = (ai = "vector"),
                        !.pc = IF ai = "vector" /\ index_type \in {"sanctions", "both"}
                               THEN "entity_knn"
                               ELSE IF lexical_needed(search.results, limit)
                               THEN "lexical"
                               ELSE "respond"]
    /\ UNCHANGED <<orch, routing, decision, http, fusion, canon>>

\* the kNN on the index sanctions, with min_score = threshold
EntityKnn ==
    /\ search.pc = "entity_knn"
    /\ \/ search' = after_call(search, "entity_knn", "entity_knn", FALSE, << >>)
       \/ \E hits \in EntityHits(search.limit, search.threshold) :
             search' = after_call(
                 [search EXCEPT !.matched = @ \cup
                     {[id |-> hits[i].id, kind |-> "vector", score |-> hits[i].score,
                       entity |-> TRUE] : i \in DOMAIN hits}],
                 "entity_knn", "entity_knn", TRUE,
                 add_entity_hits(search.results, hits))
    /\ UNCHANGED <<orch, routing, decision, http, fusion, canon>>

\* the outcomes of a kNN on variant documents and of the fetches of the parents of its
\* hits: the call fails, or the engine answers
child_knn(s, call, index) ==
    {after_call(s, call, call, FALSE, << >>)} \cup
    {after_call(log_fetch([s EXCEPT !.matched = @ \cup child_matches(hits, "vector")],
                          child_fetch_failed(s.results, hits, index)),
                call, call, TRUE, add_child_hits(s.results, hits, index)) :
        hits \in ChildHits(s.limit)}

\* the kNN on the companion index sanctions_variants
VariantKnn ==
    /\ search.pc = "variant_knn"
    /\ search' \in child_knn(search, "variant_knn", "sanctions")
    /\ UNCHANGED <<orch, routing, decision, http, fusion, canon>>

\* the kNN on the children of the parent-child index sanctions_pc
PcKnn ==
    /\ search.pc = "pc_knn"
    /\ search' \in child_knn(search, "pc_knn", "sanctions_pc")
    /\ UNCHANGED <<orch, routing, decision, http, fusion, canon>>

\* the lexical query on the next index of the loop
Lexical ==
    /\ search.pc = "lexical"
    /\ LET index_name == LexicalIndices[search.idx]
       IN  \/ search' = after_call(search, "lexical", index_name, FALSE, << >>)
           \/ \E hits \in TextHits(search.limit - Len(search.results)) :
                 search' = after_call(
                     log_fetch([search EXCEPT
                                   !.matched = @ \cup text_matches(hits, index_name)],
                               text_fetch_failed(search.results, hits, index_name,
                                                 search.limit)),
                     "lexical", index_name, TRUE,
                     add_text_hits(search.results, hits, index_name, search.limit))
    /\ UNCHANGED <<orch, routing, decision, http, fusion, canon>>

\* the collected hits are fused, sorted and cut, and the response is returned
Respond ==
    /\ search.pc = "respond"
    /\ search' = [search EXCEPT
                     !.pc = "done", !.status = 200,
                     !.response = fused_list(search.results, search.query_vector,
                                             search.limit)]
    /\ UNCHANGED <<orch, routing, decision, http, fusion, canon>>

NextSearch == SearchStart \/ EntityKnn \/ VariantKnn \/ PcKnn \/ Lexical \/ Respond

SpecSearch == Init /\ [][NextSearch]_vars

----------------------------------------------------------------------------
(* Claims about /search *)

\* the request has been answered
Responded == search.pc = "done" /\ search.status = 200

\* the ids of the results of the response
ResponseIds == {search.response[i].id : i \in DOMAIN search.response}

\* C14: whatever hits the entity kNN, the variant kNN, the parent-child kNN and the
\* lexical queries return, the results of the response hold at most one entry per
\* parent entity id.
C14_OneEntryPerParent ==
    Responded =>
        \A i, j \in DOMAIN search.response :
            i # j => search.response[i].id # search.response[j].id

\* C14 witness: a request is answered whose limit leaves room for two entries, after the
\* engine returned the same id twice and the handler collected both hits.
C14_Witness ==
    /\ Responded
    /\ search.limit > 1
    /\ Len(search.response) >= 1
    /\ \E i, j \in DOMAIN search.results :
           i # j /\ search.results[i].id = search.results[j].id

\* the scores under which the retrievals of one kind matched an id
MatchedScores(id, kind) == {m.score : m \in {n \in search.matched : n.id = id /\ n.kind = kind}}

\* C15: a parent id matched both by a vector retrieval and by the lexical retrieval is
\* returned with the score 0.7 * (its largest vector score) + 0.3 * (its largest text
\* score); a parent id matched by one kind only is returned with the largest of its
\* scores.
C15_FusedScoreOfMatches ==
    Responded =>
        \A i \in DOMAIN search.response :
            LET vs == MatchedScores(search.response[i].id, "vector")
                ts == MatchedScores(search.response[i].id, "text")
            IN  search.response[i].score =
                    IF vs # {} /\ ts # {} THEN 70 * MaxOf(vs) + 30 * MaxOf(ts)
                    ELSE 100 * MaxOf(vs \cup ts)

\* the names of the calls of the log, and of its failed calls
CallsMade   == {search.calls[i].call : i \in DOMAIN search.calls}
CallsFailed == {search.calls[i].call : i \in {j \in DOMAIN search.calls : ~search.calls[j].ok}}

\* the request ran the vector retrievals
VectorStage == search.query_vector /\ search.index_type \in {"sanctions", "both"}

\* C17: if a retrieval call of a request fails (the entity kNN, the variant kNN, the
\* parent-child kNN, a parent fetch, or the lexical query on one index), the request
\* still makes the remaining calls and answers with the hits those calls produced: it
\* answers 200, the three kNN calls of a request with a query vector and the lexical
\* queries that the limit still asks for are all made, and every id the successful
\* calls matched is in the response unless the response is full.
C17_FailedCallsTolerated ==
    (search.pc = "done" /\ CallsFailed # {}) =>
        /\ search.status = 200
        /\ VectorStage => {"entity_knn", "variant_knn", "pc_knn"} \subseteq CallsMade
        /\ \/ Len(search.results) >= search.limit
           \/ Elems(LexicalIndices) \subseteq CallsMade
        /\ \A m \in search.matched :
               m.id \in ResponseIds \/ Len(search.response) = search.limit

\* C17 witness: a request is answered in which the entity kNN, a parent fetch and a
\* lexical query failed, and whose response holds a hit of another call.
C17_Witness ==
    /\ Responded
    /\ "entity_knn" \in CallsFailed
    /\ "parent_fetch" \in CallsFailed
    /\ CallsFailed \cap Elems(LexicalIndices) # {}
    /\ search.response # << >>

\* C19 as stated: every request issues the lexical query, whether or not it has a
\* query vector and however many hits the vector retrievals have produced.
C19_LexicalAlwaysIssued ==
    Responded => LexicalIndices[1] \in CallsMade

\* C19 amended: a request issues the lexical query exactly when the vector retrievals
\* have left it with fewer results than its limit, which includes every request
\* without a query vector.
C19_LexicalIssuedBelowLimit ==
    Responded =>
        /\ LexicalIndices[1] \in CallsMade <=> search.vector_hits < search.limit
        /\ ~VectorStage => LexicalIndices[1] \in CallsMade

\* C19 witness: a request with a query vector is answered whose vector retrievals
\* produced results, fewer than the limit, and which issued the lexical query.
C19_Witness ==
    /\ Responded
    /\ VectorStage
    /\ 0 < search.vector_hits /\ search.vector_hits < search.limit
    /\ LexicalIndices[1] \in CallsMade

\* the ids a vector retrieval matched, and those the entity kNN matched
VectorMatched == {m.id : m \in {n \in search.matched : n.kind = "vector"}}
EntityMatched == {m.id : m \in {n \in search.matched : n.entity}}

\* C28 as stated: every entry of the response that a vector retrieval found (the
\* entity kNN, the variant kNN or the parent-child kNN) has a score of at least the
\* threshold of the request.
C28_VectorEntriesAboveThreshold ==
    Responded =>
        \A i \in DOMAIN search.response :
            search.response[i].id \in VectorMatched
                => search.response[i].score >= 100 * search.threshold

\* C28 amended: every entry of the response that the entity kNN found has a score of
\* at least the threshold of the request.
C28_EntityEntriesAboveThreshold ==
    Responded =>
        \A i \in DOMAIN search.response :
            search.response[i].id \in EntityMatched
                => search.response[i].score >= 100 * search.threshold

\* C28 witness: a response holds an entry the entity kNN found, and an entry found by
\* a kNN over variant documents only, whose score is below the threshold.
C28_Witness ==
    /\ Responded
    /\ \E i, j \in DOMAIN search.response :
           /\ search.response[i].id \in EntityMatched
           /\ search.response[j].id \in VectorMatched \ EntityMatched
           /\ search.response[j].score < 100 * search.threshold

----------------------------------------------------------------------------
(* server_full: POST /index and POST /normalize *)

\* POST /index on a started service: the indexing call of the client succeeds, or it
\* raises and the handler turns the exception into HTTPException(500)
IndexDocument ==
    /\ \E fault \in {"none", "indexing_failed"} :
          http' = [done |-> TRUE, endpoint |-> "/index", fault |-> fault,
                   status |-> IF fault = "none" THEN 200 ELSE 500]
    /\ UNCHANGED <<orch, routing, decision, search, fusion, canon>>

\* POST /normalize on a started service: there is no AI processor, or the AI processor
\* answers with success, or with success false after a failure it caught; each is
\* returned as a body with status 200
NormalizeText ==
    /\ \E fault \in {"none", "no_ai_processor", "ai_failed"} :
          http' = [done |-> TRUE, endpoint |-> "/normalize", fault |-> fault,
                   status |-> 200]
    /\ UNCHANGED <<orch, routing, decision, search, fusion, canon>>

NextHttp == NextSearch \/ IndexDocument \/ NormalizeText

SpecHttp == Init /\ [][NextHttp]_vars

\* C18: on a started service no fault of a request (an AI processing failure, an
\* embedding failure, a failed retrieval call, a failed indexing call) is answered
\* with a status outside 2xx.
C18_FaultsNotSurfaced ==
    /\ http.done => http.status \in 200..299
    /\ search.pc = "done" => search.status \in 200..299

----------------------------------------------------------------------------
(* The score fusion as a function *)

\* the scores of [0, 1], in hundredths
UnitScores == 0..100

\* the fusion of one entry: its vector score and its text score give its final score
FuseScores ==
    /\ ~fusion.done
    /\ \E vs \in UnitScores, ts \in UnitScores :
          fusion' = [done |-> TRUE, vs |-> vs, ts |-> ts, final |-> fuse_score(vs, ts)]
    /\ UNCHANGED <<orch, routing, decision, search, http, canon>>

NextFusion == FuseScores

SpecFusion == Init /\ [][NextFusion]_vars

----------------------------------------------------------------------------
(* Claims about the statistics, the cancellation and the cache *)

\* C21: right after reset_stats the dictionary of the counters has the keys and the
\* values it had right after the orchestrator was constructed.
C21_ResetRestoresInitial ==
    [][resets' # resets => processing_stats' = InitialStats]_vars

\* C22: when a request is cancelled at its suspension point, every counter, cache_hits
\* and cache_misses included, has the value it had before the request started; here
\* for the first request made on a fresh orchestrator, no other request being made.
C22_CancelledLeavesStats ==
    (req[1].pc = "cancelled" /\ \A q \in Proc \ {1} : req[q].pc = "idle")
        => processing_stats = InitialStats

\* C29: at every point every value the cache holds is a result with success = true, so
\* no cache hit replays a failed result.
C29_CacheHoldsSuccesses ==
    \A i \in DOMAIN cache : cache[i].value.success

\* C29 witness: a call that was to cache its result has failed and returned, while
\* the cache holds the result of another call.
C29_Witness ==
    /\ cache # << >>
    /\ \E p \in Req :
           /\ req[p].pc = "done"
           /\ req[p].cache_result
           /\ ~req[p].result.success
           /\ "stats_update" \in Elems(req[p].trace)

\* C30: every call that is not served from the cache and returns a result adds exactly
\* one to total_processed, and exactly one to failed when the result has success =
\* false.
C30_ReturnedCallCounted ==
    [][\A p \in Req :
          (req[p].pc = "norm" /\ req'[p].pc = "done") =>
              /\ processing_stats'.total_processed = processing_stats.total_processed + 1
              /\ ~req'[p].result.success =>
                     processing_stats'.failed = processing_stats.failed + 1]_vars

\* C24: the variants of a result are those the generator produced, without
\* duplicates, in the order in which the generator first produced each of them (or the
\* fallback, the normalized text alone), whatever the run.
C24_VariantsInGeneratorOrder ==
    \A p \in Returned :
        (req[p].result.success /\ req[p].gen_variants) =>
            req[p].result.variants \in
                { <<req[p].result.normalized_text>>,
                  FirstOccurrences(
                      generate_variants(req[p].result.normalized_text, MaxVariants), {}) }

----------------------------------------------------------------------------
(* process_text on romanized text *)

\* the romanized text "vid Yana" ("from Yana", with the Ukrainian indicator vid)
TextVid == <<"v", "i", "d", " ", "Y", "a", "n", "a">>

\* the calls made with romanized text
RomanizedArgs ==
    [text : {TextVid}, gen_variants : BOOLEAN, gen_embeddings : BOOLEAN,
     cache_result : BOOLEAN, force_reprocess : {FALSE}]

NextRomanized ==
    \/ \E p \in Req : StartRequest(p, RomanizedArgs)
    \/ \E p \in Req : FinishRequest(p)

SpecRomanized == Init /\ [][NextRomanized]_vars

\* C23: for romanized input that holds a Ukrainian indicator and is reverse-
\* transliterated, the language of the returned result is uk, not the language
\* detected on the raw Latin text.
C23_TransliteratedLanguageIsUk ==
    \A p \in Returned :
        (/\ req[p].result.success
         /\ \E x \in uk_signals : Contains(Lower(req[p].text), x)
         /\ maybe_reverse_transliterate(req[p].text) # req[p].text)
        => req[p].result.language = "uk"

----------------------------------------------------------------------------
(* Canonical names: _init_canonical_maps and _canonicalize_name_phrase *)

\* the letters the model adds for the surnames: к, с, ь, й
SurnameLetters == {"c_k", "c_s", "c_soft", "c_j"}

\* the characters of the token pattern r"[A-Za-zА-Яа-яІіЇїЄєҐґ\'-]+"; ё and Ё lie outside
\* the range А-я
NameChars == UkSpecific \cup CyrGeneric \cup (RuSpecific \ {"c_yo", "C_yo"}) \cup Latin
                 \cup SurnameLetters \cup {"'", "-"}

\* the characters of the initial pattern r"[A-Za-zА-ЯІЇЄҐ]\.?": a Cyrillic letter only
\* when it is a capital
InitialChars == Latin \cup {c \in NameChars : LowerChar(c) # c}

\* str.upper() on one character
UpperChar(c) ==
    IF \E u \in NameChars : u # c /\ LowerChar(u) = c
    THEN CHOOSE u \in NameChars : u # c /\ LowerChar(u) = c
    ELSE c

\* s[:1].upper() + s[1:]
UpperFirst(s) == IF s = << >> THEN << >> ELSE <<UpperChar(s[1])>> \o Tail(s)

\* str.capitalize()
Capitalize(s) == IF s = << >> THEN << >> ELSE <<UpperChar(s[1])>> \o Lower(Tail(s))

\* str.istitle() on one word
IsTitle(s) == s # << >> /\ LowerChar(s[1]) # s[1] /\ Lower(Tail(s)) = Tail(s)

\* str.endswith(suffix)
EndsWith(s, suffix) ==
    Len(s) >= Len(suffix) /\ SubSeq(s, Len(s) - Len(suffix) + 1, Len(s)) = suffix

RECURSIVE FindTokens(_, _)
\* re.findall of the token pattern: the maximal runs of name characters
FindTokens(s, cur) ==
    IF s = << >> THEN (IF cur = << >> THEN << >> ELSE <<cur>>)
    ELSE IF Head(s) \notin NameChars
         THEN (IF cur = << >> THEN << >> ELSE <<cur>>) \o FindTokens(Tail(s), << >>)
         ELSE FindTokens(Tail(s), Append(cur, Head(s)))

NameAnna    == <<"C_a", "c_n", "c_n", "c_a">>
NameHanna   == <<"C_g", "c_a", "c_n", "c_n", "c_a">>
NameAnton   == <<"C_a", "c_n", "c_t", "c_o", "c_n">>
NameNina    == <<"C_n", "c_i_uk", "c_n", "c_a">>

\* ukrainian_names.NAMES, a cut, in the order of the dictionary: a key written twice
\* keeps its first position and its last payload
UK_NAMES ==
    << [canonical |-> NameAnna, gender |-> "femn",
        variants |-> <<NameAnna>>, diminutives |-> <<NameAnna>>,
        declensions |-> << <<"C_a", "c_n", "c_n", "c_i">>, <<"C_a", "c_n", "c_n", "c_i_uk">> >>],
       [canonical |-> NameAnton, gender |-> "masc",
        variants |-> << >>, diminutives |-> << >>,
        declensions |-> << <<"C_a", "c_n", "c_t", "c_o", "c_n", "c_a">> >>],
       [canonical |-> NameNina, gender |-> "femn",
        variants |-> << <<"C_n", "c_i", "c_n", "c_a">> >>, diminutives |-> << >>,
        declensions |-> << <<"C_n", "c_i_uk", "c_n", "c_i">> >>],
       [canonical |-> NameHanna, gender |-> "femn",
        variants |-> <<NameAnna>>,
        diminutives |-> << <<"C_a", "c_n", "c_ya">>, <<"C_g", "c_a", "c_n", "c_ya">> >>,
        declensions |-> << <<"C_g", "c_a", "c_n", "c_n", "c_i">> >>] >>

\* russian_names is not in the tree: the import fails and the table stays empty
RU_NAMES == << >>

\* the entries build_reverse writes for the alternatives of one list
AltPairs(canonical, alts) == [i \in 1..Len(alts) |-> [k |-> Lower(alts[i]), v |-> canonical]]

\* the entries build_reverse writes for one name, in the order it writes them
EntryPairs(e) ==
    <<[k |-> Lower(e.canonical), v |-> e.canonical]>> \o AltPairs(e.canonical, e.variants)
        \o AltPairs(e.canonical, e.diminutives) \o AltPairs(e.canonical, e.declensions)

RECURSIVE build_reverse(_)
\* build_reverse: every assignment rev[key] = canonical, in order; a later one overwrites
build_reverse(d) == IF d = << >> THEN << >> ELSE EntryPairs(Head(d)) \o build_reverse(Tail(d))

\* dict.get on the assignments: the last one made to the key, << >> for None
MapGet(pairs, key) ==
    LET I == {i \in 1..Len(pairs) : pairs[i].k = key}
    IN  IF I = {} THEN << >> ELSE <<pairs[MaxOf(I)].v>>

\* uk_rev, ru_rev: the reverse maps, built once at construction
uk_rev == build_reverse(UK_NAMES)
ru_rev == build_reverse(RU_NAMES)

\* self._canonical_maps.get(lang, {})
canonical_maps(lang) == IF lang = "uk" THEN uk_rev ELSE IF lang = "ru" THEN ru_rev ELSE << >>

\* known_firsts: the keys of both reverse maps
known_firsts == {uk_rev[i].k : i \in DOMAIN uk_rev} \cup {ru_rev[i].k : i \in DOMAIN ru_rev}

\* the names of a table
NamesOf(lang) == IF lang = "uk" THEN UK_NAMES ELSE IF lang = "ru" THEN RU_NAMES ELSE << >>

\* self._name_genders.get(lang, {}).get(canonical): "" for None
name_genders(lang, canonical) ==
    LET I == {i \in 1..Len(NamesOf(lang)) : NamesOf(lang)[i].canonical = canonical}
    IN  IF I = {} THEN "" ELSE NamesOf(lang)[MaxOf(I)].gender

\* self._initial_maps.get(lang, {}).get(initial, []): the canonical names that begin with
\* the letter, in the order of the dictionary (no preferences are loaded)
initial_maps(lang, initial) ==
    LET names == [i \in 1..Len(NamesOf(lang)) |-> NamesOf(lang)[i].canonical]
    IN  SelectSeq(names, LAMBDA n : UpperChar(n[1]) = initial)

\* self._uk_surname_suffixes, a cut: ський, ко, ка
uk_surname_suffixes == { <<"c_s", "c_soft", "c_k", "c_i", "c_j">>, <<"c_k", "c_o">>, <<"c_k", "c_a">> }

\* _heuristic_name_language
heuristic_name_language(first, last, default) ==
    IF \E ch \in UkSpecific : ch \in Elems(last) \/ ch \in Elems(first) THEN "uk"
    ELSE IF \E ch \in RuSpecific : ch \in Elems(last) \/ ch \in Elems(first) THEN "ru"
    ELSE IF \E suf \in uk_surname_suffixes : EndsWith(Lower(last), suf) THEN "uk"
    ELSE IF default \in {"ru", "uk", "en"} THEN default ELSE "uk"

\* the nominative form the morphological analyzer gives a lowercased word: Антона is
\* Антон, Данка is Данко, every other word of the model is its own nominative
Lemma(w) ==
    IF w = <<"c_a", "c_n", "c_t", "c_o", "c_n", "c_a">> THEN <<"c_a", "c_n", "c_t", "c_o", "c_n">>
    ELSE IF w = <<"c_d", "c_a", "c_n", "c_k", "c_a">> THEN <<"c_d", "c_a", "c_n", "c_k", "c_o">>
    ELSE w

\* _to_nominative: the capitalized nominative when the analyzer is installed (morph), the
\* word itself when its import fails
to_nominative(word, lang, morph) == IF morph THEN Capitalize(Lemma(Lower(word))) ELSE word

\* _fix_surname_gender: the feminine ending of a surname, ru (ов, ин) and uk (ський)
fix_surname_gender(last, gender, lang) ==
    LET mapping ==
            IF lang = "ru" /\ gender = "femn"
            THEN << <<<<"c_o", "c_v">>, <<"c_o", "c_v", "c_a">>>>,
                    <<<<"c_i", "c_n">>, <<"c_i", "c_n", "c_a">>>> >>
            ELSE IF lang = "uk" /\ gender = "femn"
            THEN << <<<<"c_s", "c_soft", "c_k", "c_i", "c_j">>, <<"c_s", "c_soft", "c_k", "c_a">>>> >>
            ELSE << >>
        I == {i \in 1..Len(mapping) : EndsWith(Lower(last), mapping[i][1])}
    IN  IF last = << >> \/ gender = "" \/ I = {} THEN last
        ELSE LET src  == mapping[CHOOSE i \in I : \A j \in I : i <= j][1]
                 dst  == mapping[CHOOSE i \in I : \A j \in I : i <= j][2]
                 tail == SubSeq(last, Len(last) - Len(src) + 1, Len(last))
             IN  SubSeq(last, 1, Len(last) - Len(src))
                     \o (IF IsTitle(tail) THEN Capitalize(dst) ELSE dst)

\* (canon_first + (' ' + canon_last if canon_last else '')).strip()
JoinName(canon_first, canon_last) ==
    Strip(canon_first \o (IF canon_last = << >> THEN << >> ELSE <<" ">> \o canon_last))

\* the one element of a set of one element
The(S) == CHOOSE x \in S : TRUE

\* the first_token and last_token of the tokens: the first and the last one, exchanged when
\* only the last one is a known given name
name_order(parts) ==
    LET a    == parts[1]
        b    == parts[Len(parts)]
        swap == Len(parts) >= 2 /\ Lower(b) \in known_firsts /\ Lower(a) \notin known_firsts
    IN  [first |-> IF swap THEN b ELSE a,
         last  |-> IF Len(parts) < 2 THEN << >> ELSE IF swap THEN a ELSE b]

\* the second look-up of the given name: in the map of the language, then, for uk, in the
\* map of ru; the name itself when neither has it
post_map(mapped, lang) ==
    LET own_map == MapGet(canonical_maps(lang), Lower(mapped))
        other   == IF own_map = << >> /\ lang = "uk" THEN MapGet(ru_rev, Lower(mapped))
                   ELSE own_map
    IN  IF other # << >> THEN other[1] ELSE mapped

\* canon_first: the given name through the map, or its nominative when the map lacks it,
\* then through the second look-up
canonical_first(first, lang, morph) ==
    LET hit == MapGet(canonical_maps(lang), Lower(first))
    IN  The({post_map(mapped, lang) :
                mapped \in {IF hit # << >> THEN hit[1] ELSE to_nominative(first, lang, morph)}})

\* canon_last: the nominative of the surname, with the ending of the gender of canon_first
canonical_last(canon_first, nomn_last, lang) ==
    LET own    == name_genders(lang, canon_first)
        gender == IF own # "" THEN own ELSE name_genders("ru", canon_first)
    IN  IF gender # "" /\ nomn_last # << >> THEN fix_surname_gender(nomn_last, gender, lang)
        ELSE nomn_last

\* the body of _canonicalize_name_phrase once the tokens are ordered and the language chosen
canonicalize_tokens(first, last, lang, morph) ==
    LET is_initial == /\ first[1] \in InitialChars
                      /\ (Len(first) = 1 \/ (Len(first) = 2 /\ first[2] = "."))
        own_list   == initial_maps(lang, UpperChar(first[1]))
        cand_list  == IF own_list = << >> /\ lang = "uk"
                      THEN initial_maps("ru", UpperChar(first[1])) ELSE own_list
    IN  The({IF is_initial /\ cand_list # << >>
             THEN JoinName(UpperFirst(cand_list[1]), UpperFirst(nomn_last))
             ELSE The({JoinName(UpperFirst(canon_first),
                                UpperFirst(canonical_last(canon_first, nomn_last, lang))) :
                          canon_first \in {canonical_first(first, lang, morph)}}) :
                nomn_last \in {IF last = << >> THEN << >> ELSE to_nominative(last, lang, morph)}})

\* _canonicalize_name_phrase: << >> for None, <<name>> otherwise
canonicalize_name_phrase(name_text, default_lang, morph) ==
    The({IF name_text = << >> \/ parts = << >> THEN << >>
         ELSE The({<<The({canonicalize_tokens(t.first, t.last, lang, morph) :
                             lang \in {heuristic_name_language(t.first, t.last, default_lang)}})>> :
                      t \in {name_order(parts)}}) :
            parts \in {FindTokens(name_text, << >>)}})

\* the first tokens of the spans: А, а, Анна, Ганна, Аня, Антон, Антона, Нина
FirstTokens ==
    { <<"C_a">>, <<"c_a">>, NameAnna, NameHanna, <<"C_a", "c_n", "c_ya">>, NameAnton,
      <<"C_a", "c_n", "c_t", "c_o", "c_n", "c_a">>, <<"C_n", "c_i", "c_n", "c_a">> }

\* the surnames of the spans: none, Попов, Данко, Данка, Данський
LastTokens ==
    { << >>, <<"C_p", "c_o", "c_p", "c_o", "c_v">>, <<"C_d", "c_a", "c_n", "c_k", "c_o">>,
      <<"C_d", "c_a", "c_n", "c_k", "c_a">>,
      <<"C_d", "c_a", "c_n", "c_s", "c_soft", "c_k", "c_i", "c_j">> }

\* the spans: "First Last", "F. Last" and "Last First"
NameSpans ==
    {JoinName(f, l) : f \in FirstTokens, l \in LastTokens}
        \cup {f \o <<".", " ">> \o l : f \in {<<"C_a">>, <<"c_a">>}, l \in LastTokens \ {<< >>}}
        \cup {l \o <<" ">> \o f : f \in FirstTokens, l \in LastTokens \ {<< >>}}

\* a span is canonicalized under a language
Canonicalize ==
    /\ canon.pc = "idle"
    /\ \E x \in NameSpans, lang \in {"uk", "ru", "en"}, morph \in BOOLEAN :
          canon' = [pc |-> "once", name_text |-> x, default_lang |-> lang, morph |-> morph,
                    c |-> canonicalize_name_phrase(x, lang, morph), cc |-> << >>]
    /\ UNCHANGED <<orch, routing, decision, search, http, fusion>>

\* the canonical name is canonicalized again under the same language
Recanonicalize ==
    /\ canon.pc = "once"
    /\ canon.c # << >>
    /\ canon' = [canon EXCEPT !.pc = "twice",
                   !.cc = canonicalize_name_phrase(canon.c[1], canon.default_lang, canon.morph)]
    /\ UNCHANGED <<orch, routing, decision, search, http, fusion>>

NextCanonical == Canonicalize \/ Recanonicalize

SpecCanonical == Init /\ [][NextCanonical]_vars

\* C27: a canonical name is a fixed point: canonicalizing the canonical name of a span
\* again, under the same language, gives the same name
C27_CanonicalizeIdempotent == canon.pc = "twice" => canon.cc = canon.c

====
